---- MODULE Spec2Model ----
(***************************************************************************)
(* Model of the worker of cnx-chin/bot-demo:                               *)
(*   - doc_ai_parser.py   layout reconciliation (parse_document_entities)  *)
(*   - image_processor.py image normalisation   (process_image)            *)
(*   - tasks.py           the task around both (process_image_and_reply)   *)
(*   - lineworks_api.py   the access-token cache (get_valid_access_token)  *)
(*                                                                         *)
(* Conventions.                                                            *)
(*  - A text is a sequence of characters, each character a one-token       *)
(*    string.  Non-ASCII characters are written by name: "IDSP" is the     *)
(*    full-width (ideographic) space U+3000, "YEN" the yen sign, "NL" a    *)
(*    line feed, "FW1" the full-width digit one.                           *)
(*  - Normalised coordinates are integers in units of 1/1000.  center_y    *)
(*    and center_x are kept doubled (y_min + y_max, in units of 1/2000) so *)
(*    that the division by two of the source is exact.                     *)
(*  - A tolerance is an exact fraction [num, den] in units of 1/1000.      *)
(*  - Python's None is the empty sequence <<>> and a present value v is    *)
(*    <<v>> wherever a value is optional.                                  *)
(***************************************************************************)
EXTENDS Integers, Sequences, FiniteSets, TLC

VARIABLES
    document,          \* document.entities, in the order the loop has read them
    item_entities,     \* List[ParsedEntity]
    amount_entities,   \* List[ParsedEntity]
    extracted_data,    \* title / shop_name / date (line_items is kept apart)
    line_items,        \* the list the strategies append to
    is_review_needed,
    user_warning,
    y_tolerance,       \* Strategy B: the computed tolerance
    row_groups,        \* Strategy B: the rows
    row_idx,           \* Strategy B: number of rows the row loop has handled
    strategy,          \* which branch of step 2 ran: "none", "A", "B", "empty"
    pc,                \* position inside parse_document_entities
    title_hist,        \* a raw title followed by its successive normalisations
    image_bytes,       \* process_image: the input
    current_color,     \* process_image: locals (an image is its dimensions)
    current_gray,
    mask,
    max_cnt,           \* get_paper_mask: what the contour search found
    rotate_cmd,
    rotate_cmd_180,
    votes,             \* (horizontal_votes, vertical_votes) of the 90-degree analysis
    ink,               \* (top_ink, bottom_ink) of the 180-degree analysis
    img_failed,        \* the stage that failed, "none" so far
    img_result,        \* what process_image returned: <<>> while it runs
    img_pc,            \* position inside process_image
    task_pc,           \* position inside process_image_and_reply
    user_id,           \* process_image_and_reply: arguments
    channel_id,
    recipient_id,      \* process_image_and_reply: locals
    file_bytes,
    processed_file_bytes,
    user_facing_error,
    calls,             \* the calls made to the collaborators, in order
    _cached_token,     \* lineworks_api.py: module globals
    _token_expiry_time,
    _token_lock,       \* None, or <<t>> for the thread holding the lock
    now,               \* time.time()
    caller_pc,         \* each thread's position inside get_valid_access_token
    received           \* each thread's last return value, with the clock and
                       \* the stored expiry read when it was decided

parserVars == <<document, item_entities, amount_entities, extracted_data,
                line_items, is_review_needed, user_warning, y_tolerance,
                row_groups, row_idx, strategy, pc>>

titleVars == <<title_hist>>

imageVars == <<image_bytes, current_color, current_gray, mask, max_cnt,
               rotate_cmd, rotate_cmd_180, votes, ink, img_failed, img_result,
               img_pc>>

taskOwnVars == <<task_pc, user_id, channel_id, recipient_id, file_bytes,
                 processed_file_bytes, user_facing_error, calls>>

tokenVars == <<_cached_token, _token_expiry_time, _token_lock, now, caller_pc,
               received>>

taskVars == <<taskOwnVars, tokenVars>>

vars == <<parserVars, titleVars, imageVars, taskVars>>

(***************************************************************************)
(* Bounds of the model.                                                    *)
(***************************************************************************)
MaxEntities == 4
MaxTitleLen == 4
MaxDim == 2
MaxVotes == 6
MaxInk == 11
MaxHeights == 5
NumThreads == 2
MaxTicks == 3

(***************************************************************************)
(* Generic helpers.                                                        *)
(***************************************************************************)
Abs(n) == IF n < 0 THEN -n ELSE n

RECURSIVE SeqSum(_)
SeqSum(s) == IF s = <<>> THEN 0 ELSE Head(s) + SeqSum(Tail(s))

\* The sort keys of the source's lambdas: "center_y" is lambda e: e.center_y.
KeyOf(e, key) == IF key = "center_y" THEN e.center_y ELSE e.center_x

\* Insert x behind every element whose key is <= x's: the step of a stable sort.
RECURSIVE InsertSorted(_, _, _)
InsertSorted(s, x, key) ==
    IF s = <<>> THEN <<x>>
    ELSE IF KeyOf(Head(s), key) <= KeyOf(x, key)
         THEN <<Head(s)>> \o InsertSorted(Tail(s), x, key)
         ELSE <<x>> \o s

\* Python's sorted(s, key=...) / list.sort(key=...): stable, ascending.
RECURSIVE Sorted(_, _)
Sorted(s, key) ==
    IF s = <<>> THEN <<>>
    ELSE InsertSorted(Sorted(SubSeq(s, 1, Len(s) - 1), key), s[Len(s)], key)

SeqMin(s) == CHOOSE m \in {s[i] : i \in 1..Len(s)} : \A i \in 1..Len(s) : m <= s[i]
SeqMax(s) == CHOOSE m \in {s[i] : i \in 1..Len(s)} : \A i \in 1..Len(s) : m >= s[i]

(***************************************************************************)
(* Texts.                                                                  *)
(***************************************************************************)
Digits == {"0", "1", "2", "3", "4", "5", "6", "7", "8", "9"}

\* str.replace(old, '') for a one-character old
RemoveChar(text, c) == SelectSeq(text, LAMBDA ch : ch # c)

\* str.replace('@', '(a)')
RECURSIVE MaskAt(_)
MaskAt(text) ==
    IF text = <<>> THEN <<>>
    ELSE (IF Head(text) = "@" THEN <<"(", "a", ")">> ELSE <<Head(text)>>)
         \o MaskAt(Tail(text))

\* text.replace(' ', '').replace(IDSP, '').replace('@', '(a)')
CleanItemText(text) == MaskAt(RemoveChar(RemoveChar(text, " "), "IDSP"))

\* Mutant: only the yen sign and the comma are stripped from an amount.
CleanAmountText_CurrencyOnly(text) == SelectSeq(text, LAMBDA ch : ch \notin {"YEN", ","})

\* re.sub(r'[^0-9]', '', text)
IsDigit(ch) == ch \in Digits
CleanAmountText(text) == SelectSeq(text, IsDigit)

\* ' '.join(texts)
RECURSIVE JoinSpace(_)
JoinSpace(texts) ==
    IF texts = <<>> THEN <<>>
    ELSE IF Len(texts) = 1 THEN Head(texts)
    ELSE Head(texts) \o <<" ">> \o JoinSpace(Tail(texts))

UnknownItem == <<"KOU", "MOKU", "FU", "MEI">>
WarnRephoto == "warn_rephotograph_or_fix_manually"
WarnManual  == "warn_fix_manually"
None == <<>>

(***************************************************************************)
(* config.py: the title keywords and their indicator characters.           *)
(* Characters are named by reading: KU RE JI TSU TO = the five katakana of *)
(* "credit", GEN KIN = "cash", SHI HARAI = "payment", UKE IRI = "receipt". *)
(***************************************************************************)
CREDIT_CHARS  == {"KU", "RE", "JI", "TSU", "TO"}
CASH_CHARS    == {"GEN", "KIN"}
PAYMENT_CHARS == {"SHI", "HARAI"}
RECEIPT_CHARS == {"UKE", "IRI"}

CreditPayment == <<"KU", "RE", "JI", "TSU", "TO", "SHI", "HARAI">>
CreditReceipt == <<"KU", "RE", "JI", "TSU", "TO", "UKE", "IRI">>
CashPayment   == <<"GEN", "KIN", "SHI", "HARAI">>
CashReceipt   == <<"GEN", "KIN", "UKE", "IRI">>
KEYWORDS      == {CreditPayment, CreditReceipt, CashPayment, CashReceipt}

\* any(c in raw_title for c in chars)
HasAny(raw_title, chars) == \E i \in 1..Len(raw_title) : raw_title[i] \in chars

\* Mutant: the payment and receipt branches are exchanged.
CanonicalFor_Swapped(raw_title, has_credit, has_cash, has_payment, has_receipt) ==
    IF has_credit /\ ~has_cash
    THEN IF has_payment /\ ~has_receipt THEN CreditReceipt
         ELSE IF has_receipt /\ ~has_payment THEN CreditPayment
         ELSE raw_title
    ELSE IF has_cash /\ ~has_credit
    THEN IF has_payment /\ ~has_receipt THEN CashReceipt
         ELSE IF has_receipt /\ ~has_payment THEN CashPayment
         ELSE raw_title
    ELSE raw_title

\* Mutant: the payment mode is decided without the mutual exclusion.
CanonicalFor_NoExclusion(raw_title, has_credit, has_cash, has_payment, has_receipt) ==
    IF has_credit
    THEN IF has_payment /\ ~has_receipt THEN CreditPayment
         ELSE IF has_receipt /\ ~has_payment THEN CreditReceipt
         ELSE raw_title
    ELSE IF has_cash
    THEN IF has_payment /\ ~has_receipt THEN CashPayment
         ELSE IF has_receipt /\ ~has_payment THEN CashReceipt
         ELSE raw_title
    ELSE raw_title

\* The canonical title chosen for the four flags; raw_title when none applies.
CanonicalFor(raw_title, has_credit, has_cash, has_payment, has_receipt) ==
    IF has_credit /\ ~has_cash
    THEN IF has_payment /\ ~has_receipt THEN CreditPayment
         ELSE IF has_receipt /\ ~has_payment THEN CreditReceipt
         ELSE raw_title
    ELSE IF has_cash /\ ~has_credit
    THEN IF has_payment /\ ~has_receipt THEN CashPayment
         ELSE IF has_receipt /\ ~has_payment THEN CashReceipt
         ELSE raw_title
    ELSE raw_title

_normalize_title(raw_title) ==
    IF raw_title = <<>> THEN raw_title
    ELSE CanonicalFor(raw_title,
                      HasAny(raw_title, CREDIT_CHARS),
                      HasAny(raw_title, CASH_CHARS),
                      HasAny(raw_title, PAYMENT_CHARS),
                      HasAny(raw_title, RECEIPT_CHARS))

(***************************************************************************)
(* doc_ai_parser.py: fragment geometry.                                    *)
(* An entity is [type_, mention_text, page_refs]; page_refs is a sequence  *)
(* of bounding polygons, a polygon a sequence of vertices [x, y], each     *)
(* coordinate optional.                                                    *)
(***************************************************************************)
Vertex(x, y) == [x |-> <<x>>, y |-> <<y>>]
Rect(x0, x1, y0, y1) ==
    <<Vertex(x0, y0), Vertex(x1, y0), Vertex(x1, y1), Vertex(x0, y1)>>

\* [v.x for v in vertices if v.x is not None]
RECURSIVE CoordsOf(_, _)
CoordsOf(vertices, axis) ==
    IF vertices = <<>> THEN <<>>
    ELSE (IF axis = "x" THEN Head(vertices).x ELSE Head(vertices).y)
         \o CoordsOf(Tail(vertices), axis)

\* The record built at lines 41-49 from the coordinate lists.
ParsedEntityOf(entity, x_coords, y_coords) ==
    [text     |-> RemoveChar(entity.mention_text, "NL"),
     type     |-> entity.type_,
     center_y |-> SeqMin(y_coords) + SeqMax(y_coords),
     center_x |-> SeqMin(x_coords) + SeqMax(x_coords),
     x_min    |-> SeqMin(x_coords),
     x_max    |-> SeqMax(x_coords),
     height   |-> SeqMax(y_coords) - SeqMin(y_coords)]

\* Mutant: a fragment of height 0 is dropped as well.
_create_parsed_entity_DropFlat(entity) ==
    IF entity.page_refs = <<>> THEN None
    ELSE LET vertices == entity.page_refs[1]
             x_coords == CoordsOf(vertices, "x")
             y_coords == CoordsOf(vertices, "y")
         IN  IF Len(vertices) < 4 THEN None
             ELSE IF x_coords = <<>> \/ y_coords = <<>> THEN None
             ELSE IF SeqMax(y_coords) = SeqMin(y_coords) THEN None
             ELSE <<ParsedEntityOf(entity, x_coords, y_coords)>>

\* Mutant: a polygon of fewer than four vertices is accepted.
_create_parsed_entity_KeepTriangle(entity) ==
    IF entity.page_refs = <<>> THEN None
    ELSE LET vertices == entity.page_refs[1]
             x_coords == CoordsOf(vertices, "x")
             y_coords == CoordsOf(vertices, "y")
         IN  IF vertices = <<>> THEN None
             ELSE IF x_coords = <<>> \/ y_coords = <<>> THEN None
             ELSE <<ParsedEntityOf(entity, x_coords, y_coords)>>

\* Returns None (<<>>) or <<ParsedEntity>>.
_create_parsed_entity(entity) ==
    IF entity.page_refs = <<>> THEN None
    ELSE LET vertices == entity.page_refs[1]
             x_coords == CoordsOf(vertices, "x")
             y_coords == CoordsOf(vertices, "y")
         IN  IF Len(vertices) < 4 THEN None
             ELSE IF x_coords = <<>> \/ y_coords = <<>> THEN None
             ELSE <<ParsedEntityOf(entity, x_coords, y_coords)>>

(***************************************************************************)
(* doc_ai_parser.py: dynamic tolerance and row grouping.                   *)
(***************************************************************************)
RECURSIVE InsertInt(_, _)
InsertInt(s, x) ==
    IF s = <<>> THEN <<x>>
    ELSE IF Head(s) <= x THEN <<Head(s)>> \o InsertInt(Tail(s), x)
    ELSE <<x>> \o s

RECURSIVE SortedInts(_)
SortedInts(s) ==
    IF s = <<>> THEN <<>>
    ELSE InsertInt(SortedInts(SubSeq(s, 1, Len(s) - 1)), s[Len(s)])

\* Mutant: half the average height, as the comment at line 66 has it.
ToleranceOfAverage_Half(total, count) ==
    IF 50 * total >= 800 * count
    THEN [num |-> 50 * total, den |-> 100 * count]
    ELSE [num |-> 8, den |-> 1]

\* max(avg_height * 0.95, 0.008) for avg_height = total / count, as a fraction
\* of 1/1000 units: 0.95 * total / count against 8.
ToleranceOfAverage(total, count) ==
    IF 95 * total >= 800 * count
    THEN [num |-> 95 * total, den |-> 100 * count]
    ELSE [num |-> 8, den |-> 1]

\* heights is the list of entity heights, in list order.
ToleranceOfHeights(heights) ==
    LET sorted_heights == SortedInts(SelectSeq(heights, LAMBDA h : h > 1))
        n              == Len(sorted_heights)
        stable_start   == n \div 5
        stable_end     == (n * 4) \div 5
        sliced         == SubSeq(sorted_heights, stable_start + 1, stable_end)
        stable_heights == IF sliced = <<>> THEN sorted_heights ELSE sliced
    IN  IF heights = <<>> THEN [num |-> 10, den |-> 1]
        ELSE IF sorted_heights = <<>> THEN [num |-> 10, den |-> 1]
        ELSE ToleranceOfAverage(SeqSum(stable_heights), Len(stable_heights))

_calculate_dynamic_tolerance(entities) ==
    ToleranceOfHeights([i \in 1..Len(entities) |-> entities[i].height])

\* abs(current_entity.center_y - group_base_y) < y_tolerance
\* (center_y is doubled, the tolerance is num/den)
WithinTolerance(current_entity, base_entity, tolerance) ==
    Abs(current_entity.center_y - base_entity.center_y) * tolerance.den
        < 2 * tolerance.num

\* Mutant: a sliding window, the candidate is compared with the last member.
GroupBase_Sliding(current_group) == current_group[Len(current_group)]

\* The entity a candidate is compared with: the first one of the current group.
GroupBase(current_group) == current_group[1]

\* Mutant: the group still open when the loop ends is not appended.
RECURSIVE GroupLoop_DropLast(_, _, _, _, _)
GroupLoop_DropLast(sorted_entities, i, groups, current_group, tolerance) ==
    IF i > Len(sorted_entities) THEN groups
    ELSE IF WithinTolerance(sorted_entities[i], GroupBase(current_group), tolerance)
         THEN GroupLoop_DropLast(sorted_entities, i + 1, groups,
                                 Append(current_group, sorted_entities[i]), tolerance)
         ELSE GroupLoop_DropLast(sorted_entities, i + 1, Append(groups, current_group),
                                 <<sorted_entities[i]>>, tolerance)

\* The for loop of lines 80-89 from index i on, then line 91.
RECURSIVE GroupLoop(_, _, _, _, _)
GroupLoop(sorted_entities, i, groups, current_group, tolerance) ==
    IF i > Len(sorted_entities) THEN Append(groups, current_group)
    ELSE IF WithinTolerance(sorted_entities[i], GroupBase(current_group), tolerance)
         THEN GroupLoop(sorted_entities, i + 1, groups,
                        Append(current_group, sorted_entities[i]), tolerance)
         ELSE GroupLoop(sorted_entities, i + 1, Append(groups, current_group),
                        <<sorted_entities[i]>>, tolerance)

\* Mutant: the rows are formed in list order, without the sort by center_y.
_group_entities_by_row_Unsorted(entities, tolerance) ==
    IF entities = <<>> THEN <<>>
    ELSE GroupLoop(entities, 2, <<>>, <<entities[1]>>, tolerance)

_group_entities_by_row(entities, tolerance) ==
    IF entities = <<>> THEN <<>>
    ELSE LET sorted_entities == Sorted(entities, "center_y")
         IN  GroupLoop(sorted_entities, 2, <<>>, <<sorted_entities[1]>>, tolerance)

(***************************************************************************)
(* doc_ai_parser.py: one row of Strategy B (the body of the loop at 199).  *)
(***************************************************************************)
RowItems(row)   == Sorted(SelectSeq(row, LAMBDA e : e.type = "item"), "center_x")
RowAmounts(row) == Sorted(SelectSeq(row, LAMBDA e : e.type = "amount"), "center_x")
TextsOf(es)     == [i \in 1..Len(es) |-> es[i].text]

\* Mutant: the x-order check reads the leftmost item of the row.
XOrderOk_LeftmostItem(row_items, row_amounts) ==
    row_items[1].x_max < row_amounts[1].x_min

\* row_items[-1].x_max < row_amounts[0].x_min
XOrderOk(row_items, row_amounts) ==
    row_items[Len(row_items)].x_max < row_amounts[1].x_min

\* lines 206-207
RowItemText(row) == CleanItemText(JoinSpace(TextsOf(RowItems(row))))

\* Mutant: the amounts of a row are merged without the x-order check.
RowAmountText_NoXCheck(row) == CleanAmountText(JoinSpace(TextsOf(RowAmounts(row))))

\* lines 209-220
RowAmountText(row) ==
    LET row_items   == RowItems(row)
        row_amounts == RowAmounts(row)
    IN  IF Len(row_items) > 0 /\ Len(row_amounts) > 0
        THEN IF XOrderOk(row_items, row_amounts)
             THEN CleanAmountText(JoinSpace(TextsOf(row_amounts)))
             ELSE <<>>
        ELSE IF Len(row_amounts) > 0
             THEN CleanAmountText(JoinSpace(TextsOf(row_amounts)))
             ELSE <<>>

\* line 217: the x-overlap branch sets is_review_needed
RowOverlap(row) ==
    /\ Len(RowItems(row)) > 0
    /\ Len(RowAmounts(row)) > 0
    /\ ~XOrderOk(RowItems(row), RowAmounts(row))

\* lines 222-229: what the row appends to line_items
RowLines(final_item_text, final_amount_text) ==
    IF final_item_text # <<>> /\ final_amount_text # <<>>
    THEN <<[item |-> final_item_text, amount |-> final_amount_text]>>
    ELSE IF final_item_text # <<>> /\ final_amount_text = <<>>
    THEN <<[item |-> final_item_text, amount |-> <<"0">>]>>
    ELSE IF final_item_text = <<>> /\ final_amount_text # <<>>
    THEN <<[item |-> UnknownItem, amount |-> final_amount_text]>>
    ELSE <<>>

\* Mutant: only the row with an item and no amount text is flagged.
RowLinesReview_ItemOnly(final_item_text, final_amount_text) ==
    final_item_text # <<>> /\ final_amount_text = <<>>

\* lines 226 and 229: the branches of 222-229 that set is_review_needed
RowLinesReview(final_item_text, final_amount_text) ==
    \/ final_item_text # <<>> /\ final_amount_text = <<>>
    \/ final_item_text = <<>> /\ final_amount_text # <<>>

(***************************************************************************)
(* doc_ai_parser.py: Strategy A (lines 171-182) and the warning (235-241). *)
(***************************************************************************)
\* Mutant: pair in recognition order, without the sort by center_y.
OrdinalOrder_Unsorted(entities) == entities

\* The list an ordinal pairing reads a kind's fragments from.
OrdinalOrder(entities) == Sorted(entities, "center_y")

PairLine(item, amount) ==
    [item |-> CleanItemText(item.text), amount |-> CleanAmountText(amount.text)]

OrdinalPairing(items, amounts) ==
    LET sorted_items   == OrdinalOrder(items)
        sorted_amounts == OrdinalOrder(amounts)
    IN  [i \in 1..Len(sorted_items) |-> PairLine(sorted_items[i], sorted_amounts[i])]

\* Mutant: the re-photograph text needs more than three line items.
UserWarningFor_Above3(review, lines) ==
    IF review /\ lines # <<>>
    THEN IF Len(lines) > 3 THEN <<WarnRephoto>> ELSE <<WarnManual>>
    ELSE None

UserWarningFor(review, lines) ==
    IF review /\ lines # <<>>
    THEN IF Len(lines) >= 3 THEN <<WarnRephoto>> ELSE <<WarnManual>>
    ELSE None

\* Mutant: the early return flags the empty result for review.
EmptyReview_Flagged == TRUE

\* line 191: what the early return gives for is_review_needed
EmptyReview == FALSE

(***************************************************************************)
(* parse_document_entities as a function of document.entities: the three   *)
(* parts of the result the strategies decide, and the branch taken.        *)
(***************************************************************************)
\* lines 147-154 for one kind: the usable fragments of that kind, in order
RECURSIVE ParsedOfKind(_, _)
ParsedOfKind(entities, kind) ==
    IF entities = <<>> THEN <<>>
    ELSE (IF Head(entities).type_ = kind
          THEN _create_parsed_entity(Head(entities))
          ELSE <<>>)
         \o ParsedOfKind(Tail(entities), kind)

\* lines 199-229: the row loop from row i on
RECURSIVE RowLoop(_, _, _, _)
RowLoop(rows, i, lines, review) ==
    IF i > Len(rows) THEN [line_items |-> lines, review_needed |-> review]
    ELSE LET final_item_text   == RowItemText(rows[i])
             final_amount_text == RowAmountText(rows[i])
         IN  RowLoop(rows, i + 1,
                     lines \o RowLines(final_item_text, final_amount_text),
                     \/ review
                     \/ RowOverlap(rows[i])
                     \/ RowLinesReview(final_item_text, final_amount_text))

parse_document_entities(entities) ==
    LET items   == ParsedOfKind(entities, "item")
        amounts == ParsedOfKind(entities, "amount")
        rows    == _group_entities_by_row(items \o amounts,
                       _calculate_dynamic_tolerance(items \o amounts))
        looped  == RowLoop(rows, 1, <<>>, FALSE)
    IN  IF items # <<>> /\ Len(items) = Len(amounts)
        THEN [strategy      |-> "A",
              line_items    |-> OrdinalPairing(items, amounts),
              review_needed |-> FALSE,
              warning       |-> None]
        ELSE IF items \o amounts = <<>>
        THEN [strategy      |-> "empty",
              line_items    |-> <<>>,
              review_needed |-> EmptyReview,
              warning       |-> None]
        ELSE [strategy      |-> "B",
              line_items    |-> looped.line_items,
              review_needed |-> looped.review_needed,
              warning       |-> UserWarningFor(looped.review_needed, looped.line_items)]

(***************************************************************************)
(* The fragments the recognition service may deliver.                      *)
(***************************************************************************)
Fragment(kind, x, yb, text) ==
    [type_        |-> kind,
     mention_text |-> text,
     page_refs    |-> <<Rect(x[1], x[2], yb[1], yb[2])>>]

\* x extents: an item left of the amount column, an item reaching into it,
\* the amount column.
NarrowX == <<280, 300>>
WideX   == <<50, 500>>
AmountX == <<400, 600>>

\* y extents: bands of height 20 (0.02) with centres 100, 110, 120 and 140.
\* With heights of 20 the tolerance is 19: 100 and 110 share a row, 120
\* does not join a row that starts at 100, and 100 / 120 / 140 are three rows.
Band100 == <<90, 110>>
Band110 == <<100, 120>>
Band120 == <<110, 130>>
Band140 == <<130, 150>>

\* Items: narrow ones in two bands, a wide one, one of spaces only, and
\* one whose polygon has y_min = y_max (height 0).
ItemFragments ==
    {Fragment("item", NarrowX, yb, <<"A", " ", "@">>) : yb \in {Band100, Band110}}
    \cup {Fragment("item", WideX, Band100, <<"B", "IDSP", "NL", "TAB">>),
          Fragment("item", NarrowX, Band100, <<" ", "IDSP">>),
          Fragment("item", NarrowX, <<140, 140>>, <<"C">>)}

\* Amounts: three with digits, one without an ASCII digit.
AmountFragments ==
    {Fragment("amount", AmountX, yb, <<"YEN", "1", ",", "0">>) : yb \in {Band100, Band120, Band140}}
    \cup {Fragment("amount", AmountX, Band110, <<"-", "FW1">>)}

\* A fragment _create_parsed_entity drops: a polygon of three vertices.
MalformedFragments ==
    {[type_ |-> "amount", mention_text |-> <<"2">>,
      page_refs |-> <<SubSeq(Rect(400, 600, 90, 110), 1, 3)>>]}

TitleFragments ==
    {[type_ |-> "title", mention_text |-> <<"TSU", "NL", "HARAI">>, page_refs |-> <<>>]}

LayoutFragments ==
    ItemFragments \cup AmountFragments \cup MalformedFragments \cup TitleFragments

\* Fragments with a defective polygon next to usable ones: an item without
\* page reference, an item whose polygon has three vertices, an item whose
\* vertices carry no y, an amount whose page reference has no polygon
\* (no vertices), an amount whose vertices carry no x.
NoX(vertices) == [i \in 1..Len(vertices) |-> [vertices[i] EXCEPT !.x = None]]
NoY(vertices) == [i \in 1..Len(vertices) |-> [vertices[i] EXCEPT !.y = None]]

DefectiveFragments ==
    {[type_ |-> "item", mention_text |-> <<"D">>, page_refs |-> <<>>],
     [type_ |-> "item", mention_text |-> <<"E">>,
      page_refs |-> <<SubSeq(Rect(50, 500, 90, 110), 1, 3)>>],
     [type_ |-> "item", mention_text |-> <<"F">>,
      page_refs |-> <<NoY(Rect(280, 300, 90, 110))>>],
     [type_ |-> "amount", mention_text |-> <<"3">>, page_refs |-> << <<>> >>],
     [type_ |-> "amount", mention_text |-> <<"4">>,
      page_refs |-> <<NoX(Rect(400, 600, 130, 150))>>]}

UsableFragments ==
    {Fragment("item", NarrowX, Band100, <<"A", " ", "@">>),
     Fragment("item", WideX, Band100, <<"B", "IDSP", "NL", "TAB">>),
     Fragment("amount", AmountX, Band100, <<"YEN", "1", ",", "0">>),
     Fragment("amount", AmountX, Band140, <<"YEN", "1", ",", "0">>)}

DefectFragments == UsableFragments \cup DefectiveFragments

(***************************************************************************)
(* parse_document_entities                                                 *)
(***************************************************************************)
ParserInit ==
    /\ document = <<>>
    /\ item_entities = <<>>
    /\ amount_entities = <<>>
    /\ extracted_data = [title |-> None, shop_name |-> None, date |-> None]
    /\ line_items = <<>>
    /\ is_review_needed = FALSE
    /\ user_warning = None
    /\ y_tolerance = [num |-> 0, den |-> 1]
    /\ row_groups = <<>>
    /\ row_idx = 0
    /\ strategy = "none"
    /\ pc = "loop"

\* Mutant: a later fragment of a kind replaces the field.
CollectField_LastWins(data, e) ==
    IF e.type_ \in DOMAIN data
    THEN [data EXCEPT ![e.type_] =
            LET raw_text == RemoveChar(e.mention_text, "NL")
            IN  IF e.type_ = "title"
                THEN <<_normalize_title(raw_text)>>
                ELSE <<raw_text>>]
    ELSE data

\* lines 155-160: the elif branch of the loop, for an entity that is
\* neither item nor amount
CollectField(data, e) ==
    IF /\ e.type_ \in DOMAIN data
       /\ data[e.type_] = None
    THEN [data EXCEPT ![e.type_] =
            LET raw_text == RemoveChar(e.mention_text, "NL")
            IN  IF e.type_ = "title"
                THEN <<_normalize_title(raw_text)>>
                ELSE <<raw_text>>]
    ELSE data

\* One iteration of the loop at 147-160, reading entity e.  The key
\* 'line_items' of extracted_data holds a list, never None, so an entity of
\* that type changes nothing; the record here holds the other three keys.
LoopEntity(e) ==
    /\ pc = "loop"
    /\ Len(document) < MaxEntities
    /\ document' = Append(document, e)
    /\ LET parsed_entity == _create_parsed_entity(e)
       IN  IF e.type_ \in {"item", "amount"}
           THEN /\ item_entities' =
                      IF parsed_entity # None /\ e.type_ = "item"
                      THEN Append(item_entities, parsed_entity[1])
                      ELSE item_entities
                /\ amount_entities' =
                      IF parsed_entity # None /\ e.type_ = "amount"
                      THEN Append(amount_entities, parsed_entity[1])
                      ELSE amount_entities
                /\ UNCHANGED extracted_data
           ELSE /\ extracted_data' = CollectField(extracted_data, e)
                /\ UNCHANGED <<item_entities, amount_entities>>
    /\ UNCHANGED <<line_items, is_review_needed, user_warning, y_tolerance,
                   row_groups, row_idx, strategy, pc>>
    /\ UNCHANGED <<titleVars, imageVars, taskVars>>

\* Mutant: equal counts select ordinal pairing, zero included.
CountsMatch_NoZeroTest == Len(item_entities) = Len(amount_entities)

\* line 167
CountsMatch == item_entities # <<>> /\ Len(item_entities) = Len(amount_entities)

\* lines 167-182, the loop at 147 having ended
StrategyA ==
    /\ pc = "loop"
    /\ CountsMatch
    /\ line_items' = OrdinalPairing(item_entities, amount_entities)
    /\ strategy' = "A"
    /\ pc' = "assemble"
    /\ UNCHANGED <<document, item_entities, amount_entities, extracted_data,
                   is_review_needed, user_warning, y_tolerance, row_groups, row_idx>>
    /\ UNCHANGED <<titleVars, imageVars, taskVars>>

\* lines 184-191: nothing to pair, early return
EmptyReturn ==
    /\ pc = "loop"
    /\ ~CountsMatch
    /\ item_entities \o amount_entities = <<>>
    /\ line_items' = <<>>
    /\ is_review_needed' = EmptyReview
    /\ user_warning' = None
    /\ strategy' = "empty"
    /\ pc' = "done"
    /\ UNCHANGED <<document, item_entities, amount_entities, extracted_data,
                   y_tolerance, row_groups, row_idx>>
    /\ UNCHANGED <<titleVars, imageVars, taskVars>>

\* lines 184-196: tolerance and row grouping
StrategyB ==
    /\ pc = "loop"
    /\ ~CountsMatch
    /\ LET all_entities == item_entities \o amount_entities
       IN  /\ all_entities # <<>>
           /\ y_tolerance' = _calculate_dynamic_tolerance(all_entities)
           /\ row_groups' = _group_entities_by_row(all_entities, y_tolerance')
    /\ row_idx' = 0
    /\ strategy' = "B"
    /\ pc' = "rows"
    /\ UNCHANGED <<document, item_entities, amount_entities, extracted_data,
                   line_items, is_review_needed, user_warning>>
    /\ UNCHANGED <<titleVars, imageVars, taskVars>>

\* lines 199-229: one iteration of the row loop
ProcessRow ==
    /\ pc = "rows"
    /\ row_idx < Len(row_groups)
    /\ LET row               == row_groups[row_idx + 1]
           final_item_text   == RowItemText(row)
           final_amount_text == RowAmountText(row)
       IN  /\ line_items' = line_items \o RowLines(final_item_text, final_amount_text)
           /\ is_review_needed' =
                 \/ is_review_needed
                 \/ RowOverlap(row)
                 \/ RowLinesReview(final_item_text, final_amount_text)
    /\ row_idx' = row_idx + 1
    /\ UNCHANGED <<document, item_entities, amount_entities, extracted_data,
                   user_warning, y_tolerance, row_groups, strategy, pc>>
    /\ UNCHANGED <<titleVars, imageVars, taskVars>>

\* lines 231-248: the warning and the return
Assemble ==
    /\ \/ pc = "assemble"
       \/ pc = "rows" /\ row_idx = Len(row_groups)
    /\ user_warning' = UserWarningFor(is_review_needed, line_items)
    /\ pc' = "done"
    /\ UNCHANGED <<document, item_entities, amount_entities, extracted_data,
                   line_items, is_review_needed, y_tolerance, row_groups,
                   row_idx, strategy>>
    /\ UNCHANGED <<titleVars, imageVars, taskVars>>

(***************************************************************************)
(* _calculate_dynamic_tolerance on its own: item_entities holds the        *)
(* collection it is given, y_tolerance what it returns.                    *)
(***************************************************************************)
\* Heights in 1/1000: at the epsilon 0.001 (not above it), below the floor
\* after scaling (0.005), just above it (0.009), typical (0.02), an outlier
\* (0.1).
HeightValues == {1, 5, 9, 20, 100}

HeightLists == UNION {[1..n -> HeightValues] : n \in 0..MaxHeights}

\* The fragments of the given heights, as _create_parsed_entity derives them.
EntitiesOfHeights(heights) ==
    [i \in 1..Len(heights) |->
        _create_parsed_entity(
            Fragment("item", NarrowX, <<100, 100 + heights[i]>>, <<"A">>))[1]]

ToleranceInit ==
    /\ document = <<>>
    /\ item_entities \in {EntitiesOfHeights(heights) : heights \in HeightLists}
    /\ amount_entities = <<>>
    /\ extracted_data = [title |-> None, shop_name |-> None, date |-> None]
    /\ line_items = <<>>
    /\ is_review_needed = FALSE
    /\ user_warning = None
    /\ y_tolerance = [num |-> 0, den |-> 1]
    /\ row_groups = <<>>
    /\ row_idx = 0
    /\ strategy = "none"
    /\ pc = "tolerance"

CalculateTolerance ==
    /\ pc = "tolerance"
    /\ y_tolerance' = _calculate_dynamic_tolerance(item_entities)
    /\ pc' = "tolerance_done"
    /\ UNCHANGED <<document, item_entities, amount_entities, extracted_data,
                   line_items, is_review_needed, user_warning, row_groups,
                   row_idx, strategy>>
    /\ UNCHANGED <<titleVars, imageVars, taskVars>>

(***************************************************************************)
(* Title normalisation on its own: _normalize_title applied repeatedly.    *)
(***************************************************************************)
TitleAlphabet ==
    CREDIT_CHARS \cup CASH_CHARS \cup PAYMENT_CHARS \cup RECEIPT_CHARS \cup {"X"}

\* The docstring's example: three other characters, "(", credit payment, ")".
ExampleTitle == <<"X", "X", "X", "(">> \o CreditPayment \o <<")">>

RawTitles ==
    UNION {[1..n -> TitleAlphabet] : n \in 0..MaxTitleLen}
        \cup KEYWORDS \cup {ExampleTitle}

TitleIdle == title_hist = <<>>

NormalizeTitle ==
    /\ title_hist # <<>>
    /\ Len(title_hist) < 3
    /\ title_hist' = Append(title_hist, _normalize_title(title_hist[Len(title_hist)]))
    /\ UNCHANGED <<parserVars, imageVars, taskVars>>

(***************************************************************************)
(* image_processor.py.  An image is its dimensions [w, h]; what the        *)
(* analysers measure on the pixels (votes, ink densities, the contour the  *)
(* mask detection finds) and whether a library call fails are inputs.      *)
(***************************************************************************)
NoImage == [w |-> 0, h |-> 0]
NoMask  == [w |-> 0, h |-> 0, foreground |-> "none"]
ROTATE_90_CLOCKWISE == "ROTATE_90_CLOCKWISE"
ROTATE_180 == "ROTATE_180"

\* ImageOps.exif_transpose: orientations 5-8 swap width and height.
ExifTranspose(bytes_in) ==
    IF bytes_in.exif_swap THEN [w |-> bytes_in.h, h |-> bytes_in.w]
    ELSE [w |-> bytes_in.w, h |-> bytes_in.h]

to_gray(img) == img

\* Mutant: the 90-degree rotation writes into a square canvas of side h.
rotate_image_SquareCanvas(img, angle_code) ==
    IF angle_code = <<ROTATE_90_CLOCKWISE>>
    THEN [img EXCEPT !.w = img.h, !.h = img.h]
    ELSE img

rotate_image(img, angle_code) ==
    IF angle_code = <<ROTATE_90_CLOCKWISE>>
    THEN [img EXCEPT !.w = img.h, !.h = img.w]
    ELSE IF angle_code = <<ROTATE_180>> THEN img
    ELSE img

remove_shadows(gray_img) == gray_img

\* contour: "none" (no contour found), "small" (largest area < 5% of the
\* image), "large" (area >= 5%, drawn filled, and the 20 x 20 erosion leaves
\* some of it), "thin" (area >= 5%, drawn filled, but nowhere 20 pixels both
\* wide and high, so that the erosion leaves no pixel).
get_paper_mask(gray_img, contour) ==
    [w |-> gray_img.w, h |-> gray_img.h,
     foreground |-> IF contour = "none" THEN "all"
                    ELSE IF contour = "small" THEN "all"
                    ELSE IF contour = "large" THEN "some"
                    ELSE "none"]

\* Mutant: the decision is taken without the minimum of three votes.
_decide_90_rotation_NoMinimum(horizontal_votes, vertical_votes) ==
    IF \/ 10 * vertical_votes > 12 * horizontal_votes
       \/ horizontal_votes = 0 /\ vertical_votes > 2
    THEN <<ROTATE_90_CLOCKWISE>>
    ELSE None

\* vertical_votes > horizontal_votes * 1.2, in tenths
_decide_90_rotation(horizontal_votes, vertical_votes) ==
    IF horizontal_votes + vertical_votes < 3 THEN None
    ELSE IF \/ 10 * vertical_votes > 12 * horizontal_votes
            \/ horizontal_votes = 0 /\ vertical_votes > 2
         THEN <<ROTATE_90_CLOCKWISE>>
         ELSE None

\* Mutant: any denser bottom half flips the page.
analyze_upside_down_180_AnyDenser(mask_in, top_ink, bottom_ink) ==
    IF mask_in.foreground = "none" THEN None
    ELSE IF bottom_ink > top_ink THEN <<ROTATE_180>>
    ELSE None

\* bottom_ink > top_ink * 1.1, in tenths; no ROI when the mask is empty
analyze_upside_down_180(mask_in, top_ink, bottom_ink) ==
    IF mask_in.foreground = "none" THEN None
    ELSE IF 10 * bottom_ink > 11 * top_ink THEN <<ROTATE_180>>
    ELSE None

\* cv2.imencode('.jpg', final_output).tobytes()
JpegOf(img) == [kind |-> "jpeg", w |-> img.w, h |-> img.h]

\* Mutant: the handler returns no bytes.
OnException_Empty(bytes_in) == [bytes_in EXCEPT !.decodable = FALSE, !.w = 0, !.h = 0]

\* lines 250-252: what the handler returns
OnException(bytes_in) == bytes_in

\* lines 244-246: what a failed encoding returns
OnEncodeFailure(bytes_in) == bytes_in

ImageInputs ==
    [kind : {"original"}, decodable : BOOLEAN, w : 1..MaxDim, h : 1..MaxDim,
     exif_swap : BOOLEAN]

ImageIdle ==
    /\ image_bytes = [kind |-> "original", decodable |-> FALSE, w |-> 1, h |-> 1,
                      exif_swap |-> FALSE]
    /\ current_color = NoImage
    /\ current_gray = NoImage
    /\ mask = NoMask
    /\ max_cnt = "unset"
    /\ rotate_cmd = None
    /\ rotate_cmd_180 = None
    /\ votes = None
    /\ ink = None
    /\ img_failed = "none"
    /\ img_result = <<>>
    /\ img_pc = "idle"

ImageInit ==
    /\ image_bytes \in ImageInputs
    /\ current_color = NoImage
    /\ current_gray = NoImage
    /\ mask = NoMask
    /\ max_cnt = "unset"
    /\ rotate_cmd = None
    /\ rotate_cmd_180 = None
    /\ votes = None
    /\ ink = None
    /\ img_failed = "none"
    /\ img_result = <<>>
    /\ img_pc = "decode"

\* An exception inside the try block: the handler at 250-252 returns.
Raise(stage) ==
    /\ img_failed' = stage
    /\ img_result' = <<OnException(image_bytes)>>
    /\ img_pc' = "returned"

\* lines 215-220
Decode ==
    /\ img_pc = "decode"
    /\ \E ok \in BOOLEAN :
          IF image_bytes.decodable /\ ok
          THEN /\ current_color' = ExifTranspose(image_bytes)
               /\ current_gray' = to_gray(current_color')
               /\ img_pc' = "stage1"
               /\ UNCHANGED <<img_failed, img_result>>
          ELSE /\ Raise("decode")
               /\ UNCHANGED <<current_color, current_gray>>
    /\ UNCHANGED <<image_bytes, mask, max_cnt, rotate_cmd, rotate_cmd_180>>
    /\ UNCHANGED <<votes, ink>>
    /\ UNCHANGED <<parserVars, titleVars, taskVars>>

\* lines 223-229
Stage1 ==
    /\ img_pc = "stage1"
    /\ \E failure \in {"none", "mask", "analyze90"},
          contour \in {"none", "small", "large", "thin"},
          horizontal_votes \in 0..MaxVotes, vertical_votes \in 0..MaxVotes :
          IF failure = "none"
          THEN /\ rotate_cmd' = _decide_90_rotation(horizontal_votes, vertical_votes)
               /\ current_color' = rotate_image(current_color, rotate_cmd')
               /\ current_gray' = rotate_image(current_gray, rotate_cmd')
               /\ mask' = rotate_image(get_paper_mask(current_gray, contour), rotate_cmd')
               /\ max_cnt' = contour
               /\ img_pc' = "stage2"
               /\ UNCHANGED <<img_failed, img_result>>
          ELSE /\ Raise(failure)
               /\ UNCHANGED <<current_color, current_gray, mask, max_cnt, rotate_cmd>>
    /\ UNCHANGED <<image_bytes, rotate_cmd_180>>
    /\ UNCHANGED <<votes, ink>>
    /\ UNCHANGED <<parserVars, titleVars, taskVars>>

\* lines 232-235
Stage2 ==
    /\ img_pc = "stage2"
    /\ \E failure \in {"none", "analyze180"},
          top_ink \in 0..MaxInk, bottom_ink \in 0..MaxInk :
          IF failure = "none"
          THEN /\ rotate_cmd_180' = analyze_upside_down_180(mask, top_ink, bottom_ink)
               /\ current_color' = rotate_image(current_color, rotate_cmd_180')
               /\ img_pc' = "stage3"
               /\ UNCHANGED <<img_failed, img_result>>
          ELSE /\ Raise(failure)
               /\ UNCHANGED <<current_color, rotate_cmd_180>>
    /\ UNCHANGED <<image_bytes, current_gray, mask, max_cnt, rotate_cmd>>
    /\ UNCHANGED <<votes, ink>>
    /\ UNCHANGED <<parserVars, titleVars, taskVars>>

\* lines 239-248
Stage3 ==
    /\ img_pc = "stage3"
    /\ \E failure \in {"none", "shadow", "encode_raises", "encode"} :
          IF failure = "none"
          THEN /\ img_result' = <<JpegOf(remove_shadows(to_gray(current_color)))>>
               /\ img_pc' = "returned"
               /\ UNCHANGED img_failed
          ELSE IF failure = "encode"
          THEN /\ img_failed' = "encode"
               /\ img_result' = <<OnEncodeFailure(image_bytes)>>
               /\ img_pc' = "returned"
          ELSE Raise(failure)
    /\ UNCHANGED <<image_bytes, current_color, current_gray, mask, max_cnt,
                   rotate_cmd, rotate_cmd_180>>
    /\ UNCHANGED <<votes, ink>>
    /\ UNCHANGED <<parserVars, titleVars, taskVars>>

(***************************************************************************)
(* The two orientation decisions on their own: votes holds what            *)
(* _extract_text_orientation_features counted, mask the paper mask, ink    *)
(* what _calculate_ink_density measured on the top and bottom regions.     *)
(***************************************************************************)
OrientInit ==
    /\ image_bytes = [kind |-> "original", decodable |-> FALSE, w |-> 1, h |-> 1,
                      exif_swap |-> FALSE]
    /\ current_color = NoImage
    /\ current_gray = NoImage
    /\ mask \in {[w |-> 1, h |-> 1, foreground |-> f] : f \in {"all", "some", "none"}}
    /\ max_cnt = "unset"
    /\ rotate_cmd = None
    /\ rotate_cmd_180 = None
    /\ votes \in (0..MaxVotes) \X (0..MaxVotes)
    /\ ink \in (0..MaxInk) \X (0..MaxInk)
    /\ img_failed = "none"
    /\ img_result = <<>>
    /\ img_pc = "decide90"

\* line 86
Decide90 ==
    /\ img_pc = "decide90"
    /\ rotate_cmd' = _decide_90_rotation(votes[1], votes[2])
    /\ img_pc' = "analyze180"
    /\ UNCHANGED <<image_bytes, current_color, current_gray, mask, max_cnt,
                   rotate_cmd_180, votes, ink, img_failed, img_result>>
    /\ UNCHANGED <<parserVars, titleVars, taskVars>>

\* lines 144-165
Analyze180 ==
    /\ img_pc = "analyze180"
    /\ rotate_cmd_180' = analyze_upside_down_180(mask, ink[1], ink[2])
    /\ img_pc' = "analysed"
    /\ UNCHANGED <<image_bytes, current_color, current_gray, mask, max_cnt,
                   rotate_cmd, votes, ink, img_failed, img_result>>
    /\ UNCHANGED <<parserVars, titleVars, taskVars>>

(***************************************************************************)
(* lineworks_api.py: the access-token cache.  Time is in seconds; the      *)
(* clock advances in steps of 300.  A token is named by the time it was    *)
(* issued at.  Each thread calls get_valid_access_token again and again.   *)
(***************************************************************************)
TOKEN_REFRESH_BUFFER == 300
DEFAULT_TOKEN_EXPIRY == 3600

Threads == 1..NumThreads

\* What the token endpoint may put into 'expires_in': nothing or no
\* integer (None), or a number of seconds.
ExpiresInValues == {None, <<0>>, <<600>>, <<900>>}

\* lines 57-65: expires_in_int
ExpiresInInt(expires_in_value) ==
    IF expires_in_value = None THEN DEFAULT_TOKEN_EXPIRY ELSE expires_in_value[1]

\* line 90: _cached_token and time.time() < _token_expiry_time
CacheValid(token, expiry, time) == token # None /\ time < expiry

\* Mutant: the lock is not taken.
CanAcquire_Unlocked(lock) == TRUE

\* line 89: threading.Lock is free
CanAcquire(lock) == lock = None

\* The module as loaded (lines 18-20), no thread inside the function.
TokenInit ==
    /\ _cached_token = None
    /\ _token_expiry_time = 0
    /\ _token_lock = None
    /\ now = 0
    /\ caller_pc = [t \in Threads |-> "idle"]
    /\ received = [t \in Threads |-> None]

\* A thread enters get_valid_access_token (line 87).
CallGet(t) ==
    /\ caller_pc[t] = "idle"
    /\ caller_pc' = [caller_pc EXCEPT ![t] = "wait"]
    /\ received' = [received EXCEPT ![t] = None]
    /\ UNCHANGED <<_cached_token, _token_expiry_time, _token_lock, now>>
    /\ UNCHANGED <<parserVars, titleVars, imageVars, taskOwnVars>>

\* line 89: with _token_lock
Acquire(t) ==
    /\ caller_pc[t] = "wait"
    /\ CanAcquire(_token_lock)
    /\ _token_lock' = <<t>>
    /\ caller_pc' = [caller_pc EXCEPT ![t] = "locked"]
    /\ UNCHANGED <<_cached_token, _token_expiry_time, now, received>>
    /\ UNCHANGED <<parserVars, titleVars, imageVars, taskOwnVars>>

\* lines 90-93: the cached token, or generate_new_access_token up to the
\* request of line 44
CheckCache(t) ==
    /\ caller_pc[t] = "locked"
    /\ IF CacheValid(_cached_token, _token_expiry_time, now)
       THEN /\ received' = [received EXCEPT ![t] =
                   <<[token |-> _cached_token, via |-> "cache", at |-> now,
                      expiry |-> _token_expiry_time]>>]
            /\ caller_pc' = [caller_pc EXCEPT ![t] = "release"]
       ELSE /\ caller_pc' = [caller_pc EXCEPT ![t] = "request"]
            /\ UNCHANGED received
    /\ UNCHANGED <<_cached_token, _token_expiry_time, _token_lock, now>>
    /\ UNCHANGED <<parserVars, titleVars, imageVars, taskOwnVars>>

\* lines 44-85: the request ends: with a token (73-76), without one
\* (67-71), or with an exception (78-85)
Respond(t) ==
    /\ caller_pc[t] = "request"
    /\ \E outcome \in {"token", "no_token", "error"}, expires_in_value \in ExpiresInValues :
          IF outcome = "token"
          THEN /\ _cached_token' = <<[issued |-> now]>>
               /\ _token_expiry_time' =
                     now + ExpiresInInt(expires_in_value) - TOKEN_REFRESH_BUFFER
               /\ received' = [received EXCEPT ![t] =
                      <<[token |-> _cached_token', via |-> "fresh", at |-> now,
                         expiry |-> _token_expiry_time']>>]
          ELSE IF outcome = "no_token"
          THEN /\ _cached_token' = None
               /\ _token_expiry_time' = 0
               /\ received' = [received EXCEPT ![t] =
                      <<[token |-> None, via |-> "failed", at |-> now, expiry |-> 0]>>]
          ELSE /\ UNCHANGED <<_cached_token, _token_expiry_time>>
               /\ received' = [received EXCEPT ![t] =
                      <<[token |-> None, via |-> "failed",
                         at |-> now, expiry |-> _token_expiry_time]>>]
    /\ caller_pc' = [caller_pc EXCEPT ![t] = "release"]
    /\ UNCHANGED <<_token_lock, now>>
    /\ UNCHANGED <<parserVars, titleVars, imageVars, taskOwnVars>>

\* the end of the with block: the lock is released and the call returns
Release(t) ==
    /\ caller_pc[t] = "release"
    /\ _token_lock' = None
    /\ caller_pc' = [caller_pc EXCEPT ![t] = "idle"]
    /\ UNCHANGED <<_cached_token, _token_expiry_time, now, received>>
    /\ UNCHANGED <<parserVars, titleVars, imageVars, taskOwnVars>>

\* time.time() advances
Tick ==
    /\ now < MaxTicks * 300
    /\ now' = now + 300
    /\ UNCHANGED <<_cached_token, _token_expiry_time, _token_lock, caller_pc, received>>
    /\ UNCHANGED <<parserVars, titleVars, imageVars, taskOwnVars>>

(***************************************************************************)
(* tasks.py: process_image_and_reply.  Each collaborator call is appended  *)
(* to calls as [fn, args, result]; whether a collaborator reports an error *)
(* is an input.  The document the recognition service returns is read by   *)
(* parse_document_entities, which runs between the steps Recognize and     *)
(* AcceptResult.                                                           *)
(***************************************************************************)
Call(fn, args, result) == [fn |-> fn, args |-> args, result |-> result]

MIME_JPEG == "image/jpeg"

\* The texts sent to the user are named by what they say: "error_store_code"
\* (line 34), "error_photo_manual" (42), "error_ocr" (54), "error_retake_photo"
\* (64 and 70), "error_csv" (77), "error_save" (104), "error_unexpected" (123).
MsgCompleted == "processing_and_upload_completed"

\* Mutant: channel_id takes priority over user_id.
RecipientOf_ChannelFirst(uid, cid) == IF cid # None THEN cid ELSE uid

\* line 23: user_id if user_id else channel_id
RecipientOf(uid, cid) == IF uid # None THEN uid ELSE cid

\* Mutant: the recognition service is given the downloaded bytes.
RecognitionInput_Raw(raw_bytes, processed_bytes) == raw_bytes

\* line 52: the bytes handed to process_document
RecognitionInput(raw_bytes, processed_bytes) == processed_bytes

\* Mutant: any non-empty title is accepted.
TitleAccepted_NoAllowlist(title) == TRUE

\* line 69: title in config.KEYWORDS
TitleAccepted(title) == title \in KEYWORDS

\* Mutant: the warning is never put into the message.
SuccessMessage_NoWarning(title, warning) ==
    [wording |-> "success", title |-> title, body |-> MsgCompleted]

\* lines 109-112
SuccessMessage(title, warning) ==
    IF warning # None
    THEN [wording |-> "warning", title |-> title, body |-> warning[1]]
    ELSE [wording |-> "success", title |-> title, body |-> MsgCompleted]

ErrorMessage(text) == [wording |-> "error", title |-> <<>>, body |-> text]

\* What download_lw_attachment can deliver, and what process_image can
\* return for it: the JPEG of the normalised image, or the input itself.
DownloadedBytes ==
    [kind |-> "original", decodable |-> TRUE, w |-> 2, h |-> 1, exif_swap |-> FALSE]

ProcessImageResults(bytes_in) ==
    {JpegOf(rotate_image(ExifTranspose(bytes_in), angle)) :
         angle \in {None, <<ROTATE_90_CLOCKWISE>>}}
    \cup {OnException(bytes_in)}

NoBytes == [kind |-> "none", decodable |-> FALSE, w |-> 0, h |-> 0, exif_swap |-> FALSE]

TaskIdle ==
    /\ task_pc = "idle"
    /\ user_id = None
    /\ channel_id = None
    /\ recipient_id = None
    /\ file_bytes = NoBytes
    /\ processed_file_bytes = NoBytes
    /\ user_facing_error = <<>>
    /\ calls = <<>>
    /\ TokenInit

TaskInit ==
    /\ task_pc = "entry"
    /\ user_id \in {None, <<"user">>}
    /\ channel_id \in {None, <<"channel">>}
    /\ recipient_id = None
    /\ file_bytes = NoBytes
    /\ processed_file_bytes = NoBytes
    /\ user_facing_error = <<>>
    /\ calls = <<>>
    /\ TokenInit

\* An exception inside the try block, with the text set before it.
Fail(text) ==
    /\ user_facing_error' = text
    /\ task_pc' = "handler"

\* lines 23-26
Entry ==
    /\ task_pc = "entry"
    /\ recipient_id' = RecipientOf(user_id, channel_id)
    /\ task_pc' = IF recipient_id' = None THEN "raised" ELSE "store_code"
    /\ UNCHANGED <<user_id, channel_id, file_bytes, processed_file_bytes,
                   user_facing_error, calls>>
    /\ UNCHANGED <<parserVars, titleVars, imageVars, tokenVars>>

\* lines 32-36
GetStoreCode ==
    /\ task_pc = "store_code"
    /\ \E err \in BOOLEAN :
          /\ calls' = Append(calls, Call("get_store_code_by_user", <<user_id>>,
                                         IF err THEN "err" ELSE "ok"))
          /\ IF err THEN Fail(<<"error_store_code">>)
             ELSE task_pc' = "download" /\ UNCHANGED user_facing_error
    /\ UNCHANGED <<user_id, channel_id, recipient_id, file_bytes, processed_file_bytes>>
    /\ UNCHANGED <<parserVars, titleVars, imageVars, tokenVars>>

\* lines 40-43
Download ==
    /\ task_pc = "download"
    /\ \E err \in BOOLEAN :
          /\ calls' = Append(calls, Call("download_lw_attachment", <<"file_id">>,
                                         IF err THEN "err" ELSE "ok"))
          /\ IF err THEN Fail(<<"error_photo_manual">>) /\ UNCHANGED file_bytes
             ELSE /\ file_bytes' = DownloadedBytes
                  /\ task_pc' = "preprocess"
                  /\ UNCHANGED user_facing_error
    /\ UNCHANGED <<user_id, channel_id, recipient_id, processed_file_bytes>>
    /\ UNCHANGED <<parserVars, titleVars, imageVars, tokenVars>>

\* line 47
Preprocess ==
    /\ task_pc = "preprocess"
    /\ \E result \in ProcessImageResults(file_bytes) :
          /\ processed_file_bytes' = result
          /\ calls' = Append(calls, Call("process_image", <<file_bytes>>, result))
    /\ task_pc' = "recognize"
    /\ UNCHANGED <<user_id, channel_id, recipient_id, file_bytes, user_facing_error>>
    /\ UNCHANGED <<parserVars, titleVars, imageVars, tokenVars>>

\* lines 52-55; on success parse_document_entities is entered (line 59)
Recognize ==
    /\ task_pc = "recognize"
    /\ \E err \in BOOLEAN :
          /\ calls' = Append(calls,
                 Call("process_document",
                      <<RecognitionInput(file_bytes, processed_file_bytes), MIME_JPEG>>,
                      IF err THEN "err" ELSE "ok"))
          /\ IF err THEN Fail(<<"error_ocr">>) /\ UNCHANGED pc
             ELSE /\ task_pc' = "parsing"
                  /\ pc' = "loop"
                  /\ UNCHANGED user_facing_error
    /\ UNCHANGED <<user_id, channel_id, recipient_id, file_bytes, processed_file_bytes>>
    /\ UNCHANGED <<document, item_entities, amount_entities, extracted_data,
                   line_items, is_review_needed, user_warning, y_tolerance,
                   row_groups, row_idx, strategy>>
    /\ UNCHANGED <<titleVars, imageVars, tokenVars>>

\* lines 59-71, parse_document_entities having returned
AcceptResult ==
    /\ task_pc = "parsing"
    /\ pc = "done"
    /\ LET title == extracted_data.title
       IN  IF title = None \/ title[1] = <<>>
           THEN /\ calls' = Append(calls,
                       Call("upload_error_image", <<file_bytes, processed_file_bytes>>, "ok"))
                /\ Fail(<<"error_retake_photo">>)
           ELSE IF ~TitleAccepted(title[1])
           THEN /\ Fail(<<"error_retake_photo">>)
                /\ UNCHANGED calls
           ELSE /\ task_pc' = "csv"
                /\ UNCHANGED <<calls, user_facing_error>>
    /\ UNCHANGED <<user_id, channel_id, recipient_id, file_bytes, processed_file_bytes>>
    /\ UNCHANGED <<parserVars, titleVars, imageVars, tokenVars>>

\* lines 75-82
GenerateCsv ==
    /\ task_pc = "csv"
    /\ \E err \in BOOLEAN :
          /\ calls' = Append(calls,
                 Call("generate_csv_content", <<extracted_data.title, line_items>>,
                      IF err THEN "err" ELSE "ok"))
          /\ IF err THEN Fail(<<"error_csv">>)
             ELSE task_pc' = "gcs" /\ UNCHANGED user_facing_error
    /\ UNCHANGED <<user_id, channel_id, recipient_id, file_bytes, processed_file_bytes>>
    /\ UNCHANGED <<parserVars, titleVars, imageVars, tokenVars>>

\* Mutant: an exception of the GCS upload reaches the handler.
AfterUploadResults_Critical(raises) == IF raises THEN "handler" ELSE "s3"

\* lines 96-98: where the task goes on after the GCS upload
AfterUploadResults(raises) == "s3"

\* main.py 48-64: the status the worker endpoint answers with, for a task
\* that returned and for one that raised
worker_endpoint(outcome) == IF outcome = "raised" THEN 400 ELSE 200

\* lines 87-98: an exception of the upload is logged and dropped
UploadResults ==
    /\ task_pc = "gcs"
    /\ \E raises \in BOOLEAN :
          /\ calls' = Append(calls,
                 Call("upload_processed_results",
                      <<is_review_needed, file_bytes, processed_file_bytes>>,
                      IF raises THEN "raises" ELSE "ok"))
          /\ task_pc' = AfterUploadResults(raises)
    /\ UNCHANGED <<user_id, channel_id, recipient_id, file_bytes,
                   processed_file_bytes, user_facing_error>>
    /\ UNCHANGED <<parserVars, titleVars, imageVars, tokenVars>>

\* lines 102-105
UploadS3 ==
    /\ task_pc = "s3"
    /\ \E err \in BOOLEAN :
          /\ calls' = Append(calls, Call("upload_to_s3", <<extracted_data.title>>,
                                         IF err THEN "err" ELSE "ok"))
          /\ IF err THEN Fail(<<"error_save">>)
             ELSE task_pc' = "notify" /\ UNCHANGED user_facing_error
    /\ UNCHANGED <<user_id, channel_id, recipient_id, file_bytes, processed_file_bytes>>
    /\ UNCHANGED <<parserVars, titleVars, imageVars, tokenVars>>

\* lines 109-117: a failed send raises with user_facing_error still empty
Notify ==
    /\ task_pc = "notify"
    /\ \E err \in BOOLEAN :
          /\ calls' = Append(calls,
                 Call("send_lw_message",
                      <<recipient_id, SuccessMessage(extracted_data.title[1], user_warning)>>,
                      IF err THEN "err" ELSE "ok"))
          /\ task_pc' = IF err THEN "handler" ELSE "returned"
    /\ UNCHANGED <<user_id, channel_id, recipient_id, file_bytes,
                   processed_file_bytes, user_facing_error>>
    /\ UNCHANGED <<parserVars, titleVars, imageVars, tokenVars>>

\* lines 119-135: the error notification, then the exception is raised again
Handler ==
    /\ task_pc = "handler"
    /\ user_facing_error' =
          IF user_facing_error = <<>> THEN <<"error_unexpected">> ELSE user_facing_error
    /\ \E err \in BOOLEAN :
          calls' = Append(calls,
              Call("send_lw_message",
                   <<recipient_id, ErrorMessage(user_facing_error'[1])>>,
                   IF err THEN "err" ELSE "ok"))
    /\ task_pc' = "raised"
    /\ UNCHANGED <<user_id, channel_id, recipient_id, file_bytes, processed_file_bytes>>
    /\ UNCHANGED <<parserVars, titleVars, imageVars, tokenVars>>

\* The documents the recognition service returns to the task: a title that
\* normalises to a keyword, one that does not, an empty one, an item of
\* spaces only that reaches into the amount column, a plain item, an amount.
TaskFragments ==
    {[type_ |-> "title", mention_text |-> <<"GEN", "NL", "HARAI">>, page_refs |-> <<>>],
     [type_ |-> "title", mention_text |-> <<"X">>, page_refs |-> <<>>],
     [type_ |-> "title", mention_text |-> <<"NL">>, page_refs |-> <<>>],
     Fragment("item", WideX, Band100, <<" ", "IDSP">>),
     Fragment("item", NarrowX, Band100, <<"A", " ", "@">>),
     Fragment("amount", AmountX, Band100, <<"YEN", "1", ",", "0">>)}

(***************************************************************************)
(* Specifications.                                                         *)
(***************************************************************************)
ParserIdle ==
    /\ document = <<>>
    /\ item_entities = <<>>
    /\ amount_entities = <<>>
    /\ extracted_data = [title |-> None, shop_name |-> None, date |-> None]
    /\ line_items = <<>>
    /\ is_review_needed = FALSE
    /\ user_warning = None
    /\ y_tolerance = [num |-> 0, den |-> 1]
    /\ row_groups = <<>>
    /\ row_idx = 0
    /\ strategy = "none"
    /\ pc = "idle"

\* parse_document_entities over the layout fragments
Init == ParserInit /\ TitleIdle /\ ImageIdle /\ TaskIdle

Next ==
    \/ \E e \in LayoutFragments : LoopEntity(e)
    \/ StrategyA
    \/ EmptyReturn
    \/ StrategyB
    \/ ProcessRow
    \/ Assemble

Spec == Init /\ [][Next]_vars

\* _normalize_title over the raw titles
InitTitle == ParserIdle /\ ImageIdle /\ TaskIdle /\ title_hist \in {<<t>> : t \in RawTitles}

NextTitle == NormalizeTitle

SpecTitle == InitTitle /\ [][NextTitle]_vars

\* process_image over the image inputs
InitImage == ParserIdle /\ TitleIdle /\ ImageInit /\ TaskIdle

NextImage == Decode \/ Stage1 \/ Stage2 \/ Stage3

SpecImage == InitImage /\ [][NextImage]_vars

\* parse_document_entities over usable and defective fragments
NextDefect ==
    \/ \E e \in DefectFragments : LoopEntity(e)
    \/ StrategyA
    \/ EmptyReturn
    \/ StrategyB
    \/ ProcessRow
    \/ Assemble

SpecDefect == Init /\ [][NextDefect]_vars

\* _calculate_dynamic_tolerance over the height lists
InitTolerance == ToleranceInit /\ TitleIdle /\ ImageIdle /\ TaskIdle

NextTolerance == CalculateTolerance

SpecTolerance == InitTolerance /\ [][NextTolerance]_vars

\* process_image_and_reply, the parser reading the recognised document
InitTask == ParserIdle /\ TitleIdle /\ ImageIdle /\ TaskInit

NextTask ==
    \/ Entry
    \/ GetStoreCode
    \/ Download
    \/ Preprocess
    \/ Recognize
    \/ \E e \in TaskFragments : LoopEntity(e)
    \/ StrategyA
    \/ EmptyReturn
    \/ StrategyB
    \/ ProcessRow
    \/ Assemble
    \/ AcceptResult
    \/ GenerateCsv
    \/ UploadResults
    \/ UploadS3
    \/ Notify
    \/ Handler

SpecTask == InitTask /\ [][NextTask]_vars

\* parse_document_entities over row layouts: three rows (centres 100, 140,
\* 180); in the first a narrow item, an item reaching into the amount
\* column, an item of spaces only that reaches into it too, an amount and
\* an amount without a digit.
RowFragments ==
    {Fragment("item", NarrowX, Band100, <<"A", " ", "@">>),
     Fragment("item", WideX, Band100, <<"B", "IDSP", "NL", "TAB">>),
     Fragment("item", WideX, Band100, <<" ", "IDSP">>),
     Fragment("item", NarrowX, Band140, <<"C">>),
     Fragment("amount", AmountX, Band100, <<"YEN", "1", ",", "0">>),
     Fragment("amount", AmountX, Band100, <<"-", "FW1">>),
     Fragment("amount", AmountX, Band140, <<"2">>),
     Fragment("amount", AmountX, <<170, 190>>, <<"0">>)}

NextRows ==
    \/ \E e \in RowFragments : LoopEntity(e)
    \/ StrategyA
    \/ EmptyReturn
    \/ StrategyB
    \/ ProcessRow
    \/ Assemble

SpecRows == Init /\ [][NextRows]_vars

\* parse_document_entities over documents with title, shop_name and date
\* fragments: two of each kind (one of them empty once its line feed is
\* removed, or one that would normalise as a title), an entity typed
\* 'line_items', and an item and an amount of one row.
MetaFragments ==
    {[type_ |-> kind, mention_text |-> text, page_refs |-> <<>>] :
        kind \in {"title", "shop_name", "date"},
        text \in {<<"TSU", "NL", "HARAI">>, <<"NL">>}}
    \cup {[type_ |-> "line_items", mention_text |-> <<"X">>, page_refs |-> <<>>],
          Fragment("item", NarrowX, Band100, <<"A", " ", "@">>),
          Fragment("amount", AmountX, Band100, <<"YEN", "1", ",", "0">>)}

NextMeta ==
    \/ \E e \in MetaFragments : LoopEntity(e)
    \/ StrategyA
    \/ EmptyReturn
    \/ StrategyB
    \/ ProcessRow
    \/ Assemble

SpecMeta == Init /\ [][NextMeta]_vars

\* _decide_90_rotation and analyze_upside_down_180 over the vote counts,
\* masks and ink densities
InitOrient == ParserIdle /\ TitleIdle /\ OrientInit /\ TaskIdle

NextOrient == Decide90 \/ Analyze180

SpecOrient == InitOrient /\ [][NextOrient]_vars

\* get_valid_access_token called by concurrent threads
InitToken == ParserIdle /\ TitleIdle /\ ImageIdle /\ TaskIdle

NextToken ==
    \/ \E t \in Threads : CallGet(t)
    \/ \E t \in Threads : Acquire(t)
    \/ \E t \in Threads : CheckCache(t)
    \/ \E t \in Threads : Respond(t)
    \/ \E t \in Threads : Release(t)
    \/ Tick

SpecToken == InitToken /\ [][NextToken]_vars

(***************************************************************************)
(* Properties of parse_document_entities.                                  *)
(***************************************************************************)
Done == pc = "done"

\* The entities of a kind the loop has read, usable or not.
DocIndices(kind) == {i \in 1..Len(document) : document[i].type_ = kind}

\* A fragment whose polygon has four vertices with coordinates.
HasBox(e) ==
    /\ e.page_refs # <<>>
    /\ Len(e.page_refs[1]) >= 4
    /\ \E i \in 1..Len(e.page_refs[1]) : e.page_refs[1][i].x # <<>>
    /\ \E i \in 1..Len(e.page_refs[1]) : e.page_refs[1][i].y # <<>>

AllUsable(kind) == \A i \in DocIndices(kind) : HasBox(document[i])

DistinctY(entities) ==
    \A i, j \in 1..Len(entities) :
        i # j => entities[i].center_y # entities[j].center_y

\* The i-th entity from the top: exactly i - 1 entities lie above it.
FromTop(entities, i) ==
    entities[CHOOSE k \in 1..Len(entities) :
        Cardinality({j \in 1..Len(entities) :
            entities[j].center_y < entities[k].center_y}) = i - 1]

\* C1: N >= 1 usable item fragments and N usable amount fragments, the
\* center_y distinct within each kind, give exactly N line items, the i-th
\* pairing the i-th item from the top with the i-th amount from the top,
\* review_needed = false and no warning.
C1_OrdinalPairing ==
    ( /\ Done
      /\ AllUsable("item") /\ AllUsable("amount")
      /\ Cardinality(DocIndices("item")) >= 1
      /\ Cardinality(DocIndices("item")) = Cardinality(DocIndices("amount"))
      /\ DistinctY(item_entities) /\ DistinctY(amount_entities) )
    => /\ Len(line_items) = Cardinality(DocIndices("item"))
       /\ \A i \in 1..Len(line_items) :
             /\ line_items[i].item = CleanItemText(FromTop(item_entities, i).text)
             /\ line_items[i].amount = CleanAmountText(FromTop(amount_entities, i).text)
       /\ is_review_needed = FALSE
       /\ user_warning = None

\* Two items and two amounts, each kind read bottom-up, the two pairs differing.
C1_Witness ==
    /\ Done
    /\ AllUsable("item") /\ AllUsable("amount")
    /\ Len(item_entities) = 2 /\ Len(amount_entities) = 2
    /\ item_entities[1].center_y > item_entities[2].center_y
    /\ amount_entities[1].center_y > amount_entities[2].center_y
    /\ Len(line_items) = 2
    /\ line_items[1].item # line_items[2].item
    /\ line_items[1].amount # line_items[2].amount

\* C3: no usable item and no usable amount fragment gives an empty line-item
\* list, review_needed = false and no warning.
C3_EmptyDocument ==
    (Done /\ item_entities = <<>> /\ amount_entities = <<>>)
    => /\ line_items = <<>>
       /\ is_review_needed = FALSE
       /\ user_warning = None

\* The document held a title and amount fragments, all of these malformed.
C3_Witness ==
    /\ Done
    /\ strategy = "empty"
    /\ DocIndices("title") # {} /\ Cardinality(DocIndices("amount")) >= 2
    /\ item_entities = <<>> /\ amount_entities = <<>>
    /\ line_items = <<>>

\* The row the last step of the row loop handled.
LastRow == row_groups[row_idx]
OneItemOneAmount(row) == Len(RowItems(row)) = 1 /\ Len(RowAmounts(row)) = 1
ItemReachesAmount(row) == RowItems(row)[1].x_max >= RowAmounts(row)[1].x_min

\* C2 as stated: exactly one usable item and one usable amount, the item's
\* x_max >= the amount's x_min, give a result without that amount and
\* review_needed = true.
C2_Original ==
    ( /\ Done
      /\ Len(item_entities) = 1 /\ Len(amount_entities) = 1
      /\ item_entities[1].x_max >= amount_entities[1].x_min )
    => /\ is_review_needed = TRUE
       /\ \A i \in 1..Len(line_items) : line_items[i].amount = <<>>

\* C2 amended, the document of one item and one amount: the counts are
\* equal, ordinal pairing runs without an x check, the amount's digits are
\* kept and review_needed = false.
C2_OnePairIsOrdinal ==
    (Done /\ Len(item_entities) = 1 /\ Len(amount_entities) = 1)
    => /\ strategy = "A"
       /\ line_items = <<[item   |-> CleanItemText(item_entities[1].text),
                          amount |-> CleanAmountText(amount_entities[1].text)]>>
       /\ is_review_needed = FALSE

\* C2 amended, Strategy B: the step of the row loop that handles a row of
\* exactly one item and one amount with item x_max >= amount x_min sets
\* review_needed and appends that item with amount "0" (nothing when the
\* item text is empty after cleanup), never the amount's digits.
C2_RowStep ==
    ( /\ pc = "rows" /\ row_idx < Len(row_groups)
      /\ OneItemOneAmount(row_groups[row_idx + 1])
      /\ ItemReachesAmount(row_groups[row_idx + 1])
      /\ row_idx' = row_idx + 1 )
    => /\ is_review_needed' = TRUE
       /\ LET item_text == CleanItemText(RowItems(row_groups[row_idx + 1])[1].text)
          IN  line_items' =
                IF item_text = <<>> THEN line_items
                ELSE Append(line_items, [item |-> item_text, amount |-> <<"0">>])

\* C2 amended: the x-order rule acts on the rows of Strategy B only; a
\* document of one item and one amount is paired ordinally, amount kept.
C2_Amended == []C2_OnePairIsOrdinal /\ [][C2_RowStep]_vars

\* The row loop has just handled such a row, whose amount had digits.
C2_Witness ==
    /\ pc = "rows" /\ row_idx >= 1
    /\ OneItemOneAmount(LastRow)
    /\ ItemReachesAmount(LastRow)
    /\ CleanAmountText(RowAmounts(LastRow)[1].text) # <<>>
    /\ is_review_needed
    /\ line_items # <<>>
    /\ line_items[Len(line_items)].amount = <<"0">>

\* C6: in every row of the spatial grouping every member's center_y is at
\* or below the first member's and less than the tolerance away from it, so
\* no two fragments at least the tolerance apart share a row.
C6_RowsWithinTolerance ==
    strategy = "B" =>
        \A r \in 1..Len(row_groups) :
            /\ \A i \in 1..Len(row_groups[r]) :
                  /\ row_groups[r][i].center_y >= row_groups[r][1].center_y
                  /\ (row_groups[r][i].center_y - row_groups[r][1].center_y)
                         * y_tolerance.den < 2 * y_tolerance.num
            /\ \A i, j \in 1..Len(row_groups[r]) :
                  Abs(row_groups[r][i].center_y - row_groups[r][j].center_y)
                      * y_tolerance.den < 2 * y_tolerance.num

\* Three fragments of height 0.02, centres 0.02 apart, tolerance 0.019:
\* three rows of one fragment each.
C6_Witness ==
    /\ strategy = "B"
    /\ Len(row_groups) = 3
    /\ \A r \in 1..3 : Len(row_groups[r]) = 1 /\ row_groups[r][1].height = 20
    /\ y_tolerance.num * 1000 = 19 * 1000 * y_tolerance.den
    /\ row_groups[2][1].center_y - row_groups[1][1].center_y >= 2 * 19

\* C7: in every result each line item's amount holds only the digits 0-9
\* and each item text holds no plain space, no full-width space and no '@'.
C7_CleanTexts ==
    Done =>
        \A i \in 1..Len(line_items) :
            /\ \A k \in 1..Len(line_items[i].amount) :
                  line_items[i].amount[k] \in Digits
            /\ \A k \in 1..Len(line_items[i].item) :
                  line_items[i].item[k] \notin {" ", "IDSP", "@"}

\* Ordinal pairing of the items "A @" and "B<full-width space><line feed><tab>"
\* with two amounts "<yen>1,0": A(a) and B<tab>, each with amount 10.
C7_Witness ==
    /\ Done
    /\ strategy = "A"
    /\ Len(line_items) = 2
    /\ line_items[1] = [item |-> <<"A", "(", "a", ")">>, amount |-> <<"1", "0">>]
    /\ line_items[2] = [item |-> <<"B", "TAB">>, amount |-> <<"1", "0">>]
    /\ item_entities[1].text = <<"A", " ", "@">>
    /\ amount_entities[1].text = <<"YEN", "1", ",", "0">>

\* C10 as stated: every parsed entity taking part in reconciliation has
\* height > 0.
C10_Original ==
    \A i \in 1..Len(item_entities \o amount_entities) :
        (item_entities \o amount_entities)[i].height > 0

\* C10 amended: every parsed entity has height >= 0, and a fragment of
\* height 0 is kept: every item or amount fragment with a four-vertex
\* polygon is counted, and a height-0 item alone yields a line item.
C10_ZeroHeightKept ==
    /\ \A i \in 1..Len(item_entities \o amount_entities) :
          (item_entities \o amount_entities)[i].height >= 0
    /\ Len(item_entities) =
          Cardinality({i \in DocIndices("item") : HasBox(document[i])})
    /\ Len(amount_entities) =
          Cardinality({i \in DocIndices("amount") : HasBox(document[i])})
    /\ ( /\ Done
         /\ Len(item_entities) = 1 /\ amount_entities = <<>>
         /\ item_entities[1].height = 0 )
       => Len(line_items) = 1

\* A document whose only usable fragment is an item of height 0 has
\* produced a line item.
C10_Witness ==
    /\ Done
    /\ Len(item_entities) = 1 /\ amount_entities = <<>>
    /\ item_entities[1].height = 0
    /\ Len(line_items) = 1
    /\ line_items[1].amount = <<"0">>

(***************************************************************************)
(* Properties of _normalize_title (SpecTitle).                             *)
(***************************************************************************)
CharsOf(text) == {text[i] : i \in 1..Len(text)}

\* C4: _normalize_title is idempotent, and each of the four canonical
\* titles is a fixed point.
C4_Idempotent ==
    /\ Len(title_hist) = 3 => title_hist[3] = title_hist[2]
    /\ (Len(title_hist) >= 2 /\ title_hist[1] \in KEYWORDS)
           => title_hist[2] = title_hist[1]

\* A raw title that is not canonical was canonicalised, and normalising
\* the canonical title again left it alone.
C4_Witness ==
    /\ Len(title_hist) = 3
    /\ title_hist[1] \notin KEYWORDS
    /\ title_hist[2] \in KEYWORDS
    /\ title_hist[3] = title_hist[2]

\* The canonical title of a raw title by the rule of section 4.6: exactly
\* one payment-mode flag and exactly one direction flag.
ExpectedTitle(raw) ==
    LET credit  == CharsOf(raw) \cap CREDIT_CHARS # {}
        cash    == CharsOf(raw) \cap CASH_CHARS # {}
        payment == CharsOf(raw) \cap PAYMENT_CHARS # {}
        receipt == CharsOf(raw) \cap RECEIPT_CHARS # {}
    IN  IF (credit # cash) /\ (payment # receipt)
        THEN IF credit
             THEN (IF payment THEN CreditPayment ELSE CreditReceipt)
             ELSE (IF payment THEN CashPayment ELSE CashReceipt)
        ELSE raw

\* C5: _normalize_title returns the canonical title of the combination when
\* exactly one of credit/cash and exactly one of payment/receipt is present,
\* and the raw title in every other case (both or neither flag of an axis,
\* the empty title).
C5_Canonicalisation ==
    Len(title_hist) >= 2 => title_hist[2] = ExpectedTitle(title_hist[1])

\* The example title, with credit and payment characters only, became
\* the credit/payment keyword.
C5_Witness ==
    /\ Len(title_hist) >= 2
    /\ title_hist[1] = ExampleTitle
    /\ title_hist[2] = CreditPayment

(***************************************************************************)
(* Properties of process_image (SpecImage).                                *)
(***************************************************************************)
Returned == img_pc = "returned"

\* Whether returned bytes decode, and to which dimensions.
Parseable(bytes_out) == bytes_out.kind = "jpeg" \/ bytes_out.decodable
DimsOf(bytes_out) == <<bytes_out.w, bytes_out.h>>

\* C8: for a decodable input of dimensions (w, h), process_image returns
\* bytes that decode to an image of dimensions (w, h) or (h, w).
C8_DimensionsKept ==
    (Returned /\ image_bytes.decodable)
    => /\ Parseable(img_result[1])
       /\ DimsOf(img_result[1]) \in {<<image_bytes.w, image_bytes.h>>,
                                     <<image_bytes.h, image_bytes.w>>}

\* A non-square image went through both rotations and came back as a JPEG.
C8_Witness ==
    /\ Returned
    /\ image_bytes.decodable
    /\ image_bytes.w # image_bytes.h
    /\ rotate_cmd = <<ROTATE_90_CLOCKWISE>>
    /\ rotate_cmd_180 = <<ROTATE_180>>
    /\ img_result[1].kind = "jpeg"
    /\ DimsOf(img_result[1]) = <<image_bytes.h, image_bytes.w>>

\* C9: when a stage fails, process_image returns exactly the input bytes;
\* it returns in every case (no state other than a return ends it).
C9_FailureReturnsInput ==
    /\ img_failed # "none" => (Returned /\ img_result = <<image_bytes>>)
    /\ img_pc \in {"idle", "decode", "stage1", "stage2", "stage3", "returned"}
    /\ Returned <=> img_result # <<>>

\* The shadow removal failed after a 90-degree rotation was applied.
C9_Witness ==
    /\ Returned
    /\ img_failed = "shadow"
    /\ rotate_cmd = <<ROTATE_90_CLOCKWISE>>
    /\ current_color # ExifTranspose(image_bytes)
    /\ img_result = <<image_bytes>>

\* C11 as stated: get_paper_mask returns an all-foreground mask when no
\* contour is found or the largest contour is below 5% of the image, and
\* never returns a mask without a foreground pixel.
C11_MaskNeverEmpty ==
    img_pc \in {"stage2", "stage3"} =>
        /\ max_cnt \in {"none", "small"} => mask.foreground = "all"
        /\ mask.foreground # "none"

(***************************************************************************)
(* Properties of the fragment derivation (SpecDefect).                     *)
(***************************************************************************)
\* What the function returns, read off the state of a finished call.
Returned_parse ==
    [strategy      |-> strategy,
     line_items    |-> line_items,
     review_needed |-> is_review_needed,
     warning       |-> user_warning]

\* An item or amount fragment whose polygon is absent, has fewer than 4
\* vertices, or gives no x or no y coordinate.
Malformed(e) == e.type_ \in {"item", "amount"} /\ ~HasBox(e)

\* C12: a malformed item or amount fragment is dropped and the call still
\* returns; the strategy chosen, the line items, review_needed and the
\* warning are those of the document without its malformed fragments, and
\* the counts are those of the well-formed fragments.
C12_MalformedDropped ==
    Done =>
        /\ Returned_parse =
               parse_document_entities(SelectSeq(document, LAMBDA e : ~Malformed(e)))
        /\ Len(item_entities) =
               Cardinality({i \in DocIndices("item") : ~Malformed(document[i])})
        /\ Len(amount_entities) =
               Cardinality({i \in DocIndices("amount") : ~Malformed(document[i])})

\* One usable item and one usable amount between two malformed amounts: the
\* counts that decide are 1 and 1, ordinal pairing ran.
C12_Witness ==
    /\ Done
    /\ Len(document) = 4
    /\ Cardinality({i \in DocIndices("amount") : Malformed(document[i])}) = 2
    /\ Malformed(document[1]) /\ Malformed(document[4])
    /\ Len(item_entities) = 1 /\ Len(amount_entities) = 1
    /\ strategy = "A"
    /\ Len(line_items) = 1

(***************************************************************************)
(* Properties of process_image_and_reply (SpecTask).                       *)
(***************************************************************************)
CallsOf(fn) == {i \in 1..Len(calls) : calls[i].fn = fn}

\* A collaborator reported an error or raised (process_image does neither:
\* its result is bytes).
Failed(i) == calls[i].fn # "process_image" /\ calls[i].result \in {"err", "raises"}

\* The calls that tell the user the outcome of an accepted document (step 9).
Notifications ==
    {i \in CallsOf("send_lw_message") : calls[i].args[2].wording # "error"}

\* Normalisation runs after the download and before recognition, on the
\* downloaded bytes; recognition gets what it returned, as image/jpeg.
C13_DataFlow ==
    /\ Cardinality(CallsOf("process_image")) <= 1
    /\ \A p \in CallsOf("process_image") :
          /\ \E d \in CallsOf("download_lw_attachment") :
                d < p /\ calls[d].result = "ok"
          /\ calls[p].args = <<DownloadedBytes>>
    /\ \A r \in CallsOf("process_document") :
          \E p \in CallsOf("process_image") :
              /\ p < r
              /\ calls[r].args = <<calls[p].result, MIME_JPEG>>

\* C13 as stated: as above, and the bytes given to the recognition service
\* are never the raw downloaded bytes.
C13_Original ==
    /\ C13_DataFlow
    /\ \A r \in CallsOf("process_document") : calls[r].args[1] # DownloadedBytes

\* C13 amended: normalisation runs after the download and before
\* recognition, process_image receives the raw downloaded bytes, and the
\* recognition service is called with the value process_image returned and
\* MIME type image/jpeg; that value is the raw downloaded bytes exactly when
\* process_image fell back to returning its input.
C13_Amended ==
    /\ C13_DataFlow
    /\ \A r \in CallsOf("process_document") :
          calls[r].args[1] = DownloadedBytes
              <=> processed_file_bytes = OnException(file_bytes)

\* The recognition service was called with a normalised JPEG of other
\* dimensions than the download.
C13_Witness ==
    /\ CallsOf("process_document") # {}
    /\ \A r \in CallsOf("process_document") :
          /\ calls[r].args[1].kind = "jpeg"
          /\ calls[r].args[1].w = file_bytes.h
          /\ calls[r].args[1].h = file_bytes.w
          /\ calls[r].args[2] = MIME_JPEG

\* C14: when the task returns with every collaborator having succeeded, the
\* title in the allowlist and no warning, exactly one message was sent, to
\* user_id when it is given (to channel_id otherwise), with the success
\* wording naming the title, and upload_error_image was not called.
C14_SuccessNotification ==
    ( /\ task_pc = "returned"
      /\ \A i \in 1..Len(calls) : ~Failed(i)
      /\ user_warning = None )
    => /\ extracted_data.title # None /\ extracted_data.title[1] \in KEYWORDS
       /\ Cardinality(CallsOf("send_lw_message")) = 1
       /\ \A i \in CallsOf("send_lw_message") :
             /\ user_id # None => calls[i].args[1] = user_id
             /\ user_id = None => calls[i].args[1] = channel_id
             /\ calls[i].args[2] = [wording |-> "success",
                                    title   |-> extracted_data.title[1],
                                    body    |-> MsgCompleted]
       /\ CallsOf("upload_error_image") = {}

\* Both ids given: the one message of a successful run went to the user.
C14_Witness ==
    /\ task_pc = "returned"
    /\ \A i \in 1..Len(calls) : ~Failed(i)
    /\ user_warning = None
    /\ user_id = <<"user">> /\ channel_id = <<"channel">>
    /\ calls[Len(calls)].fn = "send_lw_message"
    /\ calls[Len(calls)].args[1] = <<"user">>
    /\ calls[Len(calls)].args[2].title = CashPayment

\* C15: CSV generation, the GCS result upload, the S3 upload and the
\* notification of step 9 happen only for a result whose title is one of
\* config.KEYWORDS.
C15_AllowlistBeforeExport ==
    ( \/ task_pc \in {"csv", "gcs", "s3", "notify", "returned"}
      \/ CallsOf("generate_csv_content") # {}
      \/ CallsOf("upload_processed_results") # {}
      \/ CallsOf("upload_to_s3") # {}
      \/ Notifications # {} )
    => /\ pc = "done"
       /\ extracted_data.title # None
       /\ extracted_data.title[1] \in KEYWORDS

\* A result with a title outside the allowlist ended the task with the
\* retake message and none of the four steps.
C15_Witness ==
    /\ task_pc = "raised"
    /\ pc = "done"
    /\ extracted_data.title = << <<"X">> >>
    /\ line_items # <<>>
    /\ CallsOf("generate_csv_content") = {}
    /\ CallsOf("upload_to_s3") = {}
    /\ calls[Len(calls)].args[2] = ErrorMessage("error_retake_photo")

\* C16 as stated: the notification has the warning wording if and only if
\* review_needed is true.
C16_Original ==
    \A i \in Notifications :
        calls[i].args[2].wording = "warning" <=> is_review_needed

\* C16 amended: the notification has the warning wording if and only if
\* the result carries a warning, that is review_needed is true and at least
\* one line item was produced; with review_needed false, or with no line
\* item, it has the success wording.
C16_WordingFollowsWarning ==
    \A i \in Notifications :
        /\ calls[i].args[2].wording \in {"success", "warning"}
        /\ calls[i].args[2].wording = "warning"
               <=> (is_review_needed /\ line_items # <<>>)
        /\ calls[i].args[2].wording = "warning"
               => calls[i].args[2].body \in {WarnRephoto, WarnManual}
        /\ calls[i].args[2].wording = "success"
               => calls[i].args[2].body = MsgCompleted

\* A result flagged for review with a line item was notified with the
\* warning wording.
C16_Witness ==
    /\ Notifications # {}
    /\ is_review_needed /\ line_items # <<>>
    /\ \A i \in Notifications : calls[i].args[2].wording = "warning"

(***************************************************************************)
(* Properties of the strategies (Spec).                                    *)
(***************************************************************************)
\* The number of fragments of a kind whose polygon is usable.
NumUsable(kind) == Cardinality({i \in DocIndices(kind) : HasBox(document[i])})

\* Within each row, no two fragments of one kind have the same center_x.
DistinctXInRows(rows) ==
    \A r \in 1..Len(rows) : \A i, j \in 1..Len(rows[r]) :
        (i # j /\ rows[r][i].type = rows[r][j].type)
            => rows[r][i].center_x # rows[r][j].center_x

\* Two reorderings that generate every permutation of a sequence: exchange
\* the first two elements, move the first element to the end.
SwapFirstTwo(s) == IF Len(s) < 2 THEN s ELSE <<s[2], s[1]>> \o SubSeq(s, 3, Len(s))
RotateLeft(s)   == IF s = <<>> THEN s ELSE Tail(s) \o <<Head(s)>>

\* C17: with center_y pairwise distinct within each kind, and center_x
\* pairwise distinct within each row and kind, the line items, review_needed
\* and the warning of a document are those of the same fragments in another
\* order (every document of the same fragments is examined, so agreement
\* under the two generating reorderings is agreement under all).
C17_OrderIndependent ==
    ( /\ Done
      /\ DistinctY(item_entities) /\ DistinctY(amount_entities)
      /\ DistinctXInRows(row_groups) )
    => \A reordered \in {SwapFirstTwo(document), RotateLeft(document)} :
           LET other == parse_document_entities(reordered)
           IN  /\ other.line_items = line_items
               /\ other.review_needed = is_review_needed
               /\ other.warning = user_warning

\* Items read bottom-up, in different rows from an amount read last: two
\* line items came out top-down.
C17_Witness ==
    /\ Done
    /\ strategy = "B"
    /\ DistinctY(item_entities) /\ DistinctY(amount_entities)
    /\ DistinctXInRows(row_groups)
    /\ Len(item_entities) = 2 /\ Len(amount_entities) = 1
    /\ item_entities[1].center_y > item_entities[2].center_y
    /\ document[Len(document)].type_ = "amount"
    /\ Len(line_items) = 2
    /\ line_items[1].item = CleanItemText(item_entities[2].text)
    /\ line_items[2].item = CleanItemText(item_entities[1].text)

\* C18: once the entity loop has ended, ordinal pairing ran exactly when
\* the numbers of usable items and amounts are equal and positive, row
\* grouping exactly when they differ, neither when both are zero; with equal
\* numbers no row was formed, review_needed is false and there is no warning.
C18_StrategyByCounts ==
    strategy # "none" =>
        /\ strategy = "A" <=>
              (NumUsable("item") = NumUsable("amount") /\ NumUsable("item") > 0)
        /\ strategy = "B" <=> NumUsable("item") # NumUsable("amount")
        /\ strategy = "empty" <=>
              (NumUsable("item") = 0 /\ NumUsable("amount") = 0)
        /\ NumUsable("item") = NumUsable("amount") =>
              /\ row_groups = <<>> /\ row_idx = 0
              /\ is_review_needed = FALSE
              /\ user_warning = None

\* Two items and two amounts, one item reaching into the amount column at
\* the height of an amount: paired ordinally, not flagged.
C18_Witness ==
    /\ Done
    /\ strategy = "A"
    /\ Len(item_entities) = 2 /\ Len(amount_entities) = 2
    /\ \E i \in 1..2, j \in 1..2 :
          /\ item_entities[i].x_max >= amount_entities[j].x_min
          /\ item_entities[i].center_y = amount_entities[j].center_y
    /\ Len(line_items) = 2
    /\ is_review_needed = FALSE

\* The rows one after the other.
RECURSIVE Flatten(_)
Flatten(rows) == IF rows = <<>> THEN <<>> ELSE Head(rows) \o Flatten(Tail(rows))

CountIn(s, e) == Cardinality({i \in 1..Len(s) : s[i] = e})

\* C19: the rows, one after the other, hold every fragment exactly once in
\* ascending center_y; no row is empty; every member of a row is less than
\* the tolerance below the row's first fragment, and the first fragment of
\* the next row is the tolerance or more below it.
C19_FixedReference ==
    strategy = "B" =>
        LET all_entities == item_entities \o amount_entities
            flat         == Flatten(row_groups)
        IN  /\ Len(flat) = Len(all_entities)
            /\ \A i \in 1..Len(all_entities) :
                  CountIn(flat, all_entities[i]) = CountIn(all_entities, all_entities[i])
            /\ \A i \in 1..(Len(flat) - 1) : flat[i].center_y <= flat[i + 1].center_y
            /\ \A r \in 1..Len(row_groups) :
                  /\ row_groups[r] # <<>>
                  /\ \A i \in 1..Len(row_groups[r]) :
                        (row_groups[r][i].center_y - row_groups[r][1].center_y)
                            * y_tolerance.den < 2 * y_tolerance.num
            /\ \A r \in 1..(Len(row_groups) - 1) :
                  (row_groups[r + 1][1].center_y - row_groups[r][1].center_y)
                      * y_tolerance.den >= 2 * y_tolerance.num

\* A chain at 0.100, 0.110, 0.120 with tolerance 0.019: the third is within
\* tolerance of the second but not of the first, and starts the second row.
C19_Witness ==
    /\ strategy = "B"
    /\ Len(row_groups) = 2
    /\ Len(row_groups[1]) = 2 /\ Len(row_groups[2]) = 1
    /\ row_groups[1][1].center_y = 200
    /\ row_groups[1][2].center_y = 220
    /\ row_groups[2][1].center_y = 240
    /\ y_tolerance = [num |-> 95 * 40, den |-> 100 * 2]

(***************************************************************************)
(* Properties of _calculate_dynamic_tolerance (SpecTolerance).             *)
(***************************************************************************)
\* The heights above the epsilon 0.001, ascending.
HeightsAbove ==
    SortedInts(SelectSeq([i \in 1..Len(item_entities) |-> item_entities[i].height],
                         LAMBDA h : h > 1))

\* floor(a / b) for b > 0
FloorDiv(a, b) == CHOOSE k \in 0..a : b * k <= a /\ a < b * (k + 1)

\* Sorted positions floor(n/5) up to but excluding floor(4n/5), counted from 0.
MiddleBand ==
    LET n == Len(HeightsAbove)
    IN  SubSeq(HeightsAbove, FloorDiv(n, 5) + 1, FloorDiv(4 * n, 5))

\* tolerance = max(0.95 * mean(heights), 0.008), in 1/1000 and without division
IsToleranceOf(tolerance, heights) ==
    /\ heights # <<>>
    /\ IF 95 * SeqSum(heights) >= 800 * Len(heights)
       THEN tolerance.num * 100 * Len(heights) = 95 * SeqSum(heights) * tolerance.den
       ELSE tolerance.num = 8 * tolerance.den

HasItemAndAmount(row) ==
    /\ \E i \in 1..Len(row) : row[i].type = "item"
    /\ \E i \in 1..Len(row) : row[i].type = "amount"

\* The row's rightmost item (greatest center_x among its items) ends left
\* of where its leftmost amount (least center_x among its amounts) begins.
RightmostItemLeftOfAmounts(row) ==
    \A i, j \in 1..Len(row) :
        ( /\ row[i].type = "item"
          /\ \A k \in 1..Len(row) :
                 row[k].type = "item" => row[k].center_x <= row[i].center_x
          /\ row[j].type = "amount"
          /\ \A k \in 1..Len(row) :
                 row[k].type = "amount" => row[j].center_x <= row[k].center_x )
        => row[i].x_max < row[j].x_min

\* The cleaned text of all the amounts of a row, left to right.
KeptAmountText(row) == CleanAmountText(JoinSpace(TextsOf(RowAmounts(row))))

\* C21: in Strategy B, the step of the row loop that handles a row with at
\* least one item and one amount keeps the row's amounts when the rightmost
\* item's x_max is left of the leftmost amount's x_min; otherwise it drops
\* the row's amount text (the row is handled as a row without amount text)
\* and sets review_needed, which stays true to the end of the call.
C21_XOrderRule ==
    [][ /\ ( /\ pc = "rows" /\ row_idx < Len(row_groups)
             /\ row_idx' = row_idx + 1
             /\ HasItemAndAmount(row_groups[row_idx + 1]) )
           => LET row == row_groups[row_idx + 1]
              IN  IF RightmostItemLeftOfAmounts(row)
                  THEN line_items' =
                         line_items \o RowLines(RowItemText(row), KeptAmountText(row))
                  ELSE /\ line_items' =
                            line_items \o RowLines(RowItemText(row), <<>>)
                       /\ is_review_needed' = TRUE
        /\ (pc = "rows" /\ is_review_needed) => is_review_needed'
      ]_vars

\* A finished call whose first row held the item that reaches into the
\* amount column and an amount with digits: the line item of that row has
\* the substituted amount "0" and the result is flagged.
C21_Witness ==
    /\ Done /\ strategy = "B"
    /\ HasItemAndAmount(row_groups[1])
    /\ ~RightmostItemLeftOfAmounts(row_groups[1])
    /\ KeptAmountText(row_groups[1]) = <<"1", "0">>
    /\ line_items # <<>>
    /\ line_items[1] = [item |-> RowItemText(row_groups[1]), amount |-> <<"0">>]
    /\ RowItemText(row_groups[1]) # <<>>
    /\ is_review_needed

\* The other branch: a first row whose amounts were kept.
C21_KeptReached ==
    /\ Done /\ strategy = "B"
    /\ HasItemAndAmount(row_groups[1])
    /\ RightmostItemLeftOfAmounts(row_groups[1])
    /\ line_items # <<>>
    /\ line_items[1].amount = <<"1", "0">>


\* C22: in Strategy B every step of the row loop appends at most one line
\* item, decided by the row's cleaned texts: both non-empty give the line
\* item of the two texts and leave review_needed as it was; item text with
\* empty amount text gives amount "0" and sets review_needed; amount text
\* with empty item text gives the placeholder item and sets review_needed;
\* both empty give no line item.  review_needed, once set, stays set, and
\* a result holding the placeholder item is always flagged.
C22_RowOutcomes ==
    /\ [][ /\ ( pc = "rows" /\ row_idx < Len(row_groups) /\ row_idx' = row_idx + 1 )
              => LET item_text   == RowItemText(row_groups[row_idx + 1])
                     amount_text == RowAmountText(row_groups[row_idx + 1])
                 IN  /\ Len(line_items') <= Len(line_items) + 1
                     /\ (item_text # <<>> /\ amount_text # <<>>)
                        => /\ line_items' = Append(line_items,
                                  [item |-> item_text, amount |-> amount_text])
                           /\ is_review_needed' = is_review_needed
                     /\ (item_text # <<>> /\ amount_text = <<>>)
                        => /\ line_items' = Append(line_items,
                                  [item |-> item_text, amount |-> <<"0">>])
                           /\ is_review_needed' = TRUE
                     /\ (item_text = <<>> /\ amount_text # <<>>)
                        => /\ line_items' = Append(line_items,
                                  [item |-> UnknownItem, amount |-> amount_text])
                           /\ is_review_needed' = TRUE
                     /\ (item_text = <<>> /\ amount_text = <<>>)
                        => line_items' = line_items
           /\ (pc = "rows" /\ is_review_needed) => is_review_needed'
         ]_vars
    /\ []( (strategy = "B" /\ \E i \in 1..Len(line_items) : line_items[i].item = UnknownItem)
           => is_review_needed )

\* A finished call of three rows: an item whose only amount had no digit
\* (amount "0" substituted), an amount alone (placeholder item), and a
\* third amount alone; the result is flagged.
C22_Witness ==
    /\ Done /\ strategy = "B"
    /\ Len(row_groups) = 3
    /\ RowItemText(row_groups[1]) # <<>>
    /\ Len(RowAmounts(row_groups[1])) = 1
    /\ RowAmountText(row_groups[1]) = <<>>
    /\ RowItemText(row_groups[2]) = <<>>
    /\ Len(line_items) = 3
    /\ line_items[1].amount = <<"0">>
    /\ line_items[2] = [item |-> UnknownItem, amount |-> <<"2">>]
    /\ is_review_needed

\* The other two outcomes: a row giving a normal line item next to a row
\* (of a spaces-only item) giving none.
C22_NormalAndNoneReached ==
    /\ Done /\ strategy = "B"
    /\ Len(row_groups) = 2
    /\ Len(line_items) = 1
    /\ line_items[1].item # UnknownItem
    /\ line_items[1].amount = <<"2">>
    /\ ~is_review_needed


\* C23: the warning of a finished call is non-null exactly when
\* review_needed is true and there is at least one line item; a non-null
\* warning is the re-photograph text when there are >= 3 line items and the
\* manual-correction text when there are fewer.
C23_Warning ==
    Done =>
      /\ (user_warning # None) <=> (is_review_needed /\ Len(line_items) >= 1)
      /\ user_warning # None =>
            user_warning[1] = IF Len(line_items) >= 3 THEN WarnRephoto ELSE WarnManual

\* A flagged result of exactly three line items carries the re-photograph
\* text.
C23_Witness ==
    /\ Done /\ strategy = "B"
    /\ is_review_needed
    /\ Len(line_items) = 3
    /\ user_warning = <<WarnRephoto>>

\* The other cases: a flagged result of two line items (manual text), a
\* flagged result without line items and an unflagged one (no warning).
C23_ManualReached ==
    Done /\ is_review_needed /\ Len(line_items) = 2 /\ user_warning = <<WarnManual>>

C23_FlaggedEmptyReached ==
    Done /\ is_review_needed /\ line_items = <<>> /\ user_warning = None

C23_UnflaggedReached ==
    Done /\ strategy = "B" /\ ~is_review_needed /\ line_items # <<>> /\ user_warning = None


\* C28: in Strategy B, when the step of the row loop appends a line item
\* that carries the row's item text together with the row's amount text
\* (the x-order check passed), every item of the row lies strictly left of
\* every amount of the row: max x_max over the items < min x_min over the
\* amounts.
C28_ItemsLeftOfAmounts ==
    [][ ( /\ pc = "rows" /\ row_idx < Len(row_groups)
          /\ row_idx' = row_idx + 1
          /\ HasItemAndAmount(row_groups[row_idx + 1])
          /\ RowItemText(row_groups[row_idx + 1]) # <<>>
          /\ KeptAmountText(row_groups[row_idx + 1]) # <<>>
          /\ line_items' = Append(line_items,
                 [item   |-> RowItemText(row_groups[row_idx + 1]),
                  amount |-> KeptAmountText(row_groups[row_idx + 1])]) )
        => LET row == row_groups[row_idx + 1]
           IN  \A i, j \in 1..Len(row) :
                   (row[i].type = "item" /\ row[j].type = "amount")
                   => row[i].x_max < row[j].x_min
      ]_vars

\* C29: every line item of a finished call, under Strategy A as well as
\* Strategy B, has a non-empty item text.
C29_ItemTextNonEmpty ==
    Done => \A i \in 1..Len(line_items) : line_items[i].item # <<>>

\* Under Strategy B alone the item text of a line item is never empty.
C29_StrategyBNonEmpty ==
    (Done /\ strategy = "B") => \A i \in 1..Len(line_items) : line_items[i].item # <<>>


(***************************************************************************)
(* Properties of the title, shop_name and date fields (SpecMeta).          *)
(***************************************************************************)
\* The first entity of a kind in document order.
FirstOfKind(kind) ==
    document[CHOOSE i \in DocIndices(kind) : \A j \in DocIndices(kind) : i <= j]

\* The item and amount entities of the document, in order.
ItemsAndAmounts ==
    SelectSeq(document, LAMBDA e : e.type_ \in {"item", "amount"})

\* C24: at every point of the call, each of title, shop_name and date is
\* null exactly when the entities read so far hold no fragment of that
\* kind, and otherwise holds the text of the first such fragment (line
\* feeds removed; for the title, passed through _normalize_title; for
\* shop_name and date, not), whatever fragments of the kind followed and
\* even when that first text is empty; the line items and review_needed of
\* the finished call are those of the document without these fragments.
C24_FirstFragmentWins ==
    /\ \A kind \in {"title", "shop_name", "date"} :
          IF DocIndices(kind) = {}
          THEN extracted_data[kind] = None
          ELSE LET raw_text == RemoveChar(FirstOfKind(kind).mention_text, "NL")
               IN  extracted_data[kind] =
                      IF kind = "title" THEN <<_normalize_title(raw_text)>>
                                        ELSE <<raw_text>>
    /\ Done =>
          LET r == parse_document_entities(ItemsAndAmounts)
          IN  /\ line_items = r.line_items
              /\ is_review_needed = r.review_needed

\* A finished call that read an empty title before one that normalises
\* and a shop name that would normalise as a title before an empty one:
\* the title is the empty text, the shop name is kept as read (without its
\* line feed) and the date is null.
C24_Witness ==
    /\ Done
    /\ Cardinality(DocIndices("title")) = 2
    /\ Cardinality(DocIndices("shop_name")) = 2
    /\ extracted_data.title = <<<<>>>>
    /\ extracted_data.shop_name = <<<<"TSU", "HARAI">>>>
    /\ _normalize_title(<<"TSU", "HARAI">>) # <<"TSU", "HARAI">>
    /\ extracted_data.date = None
    /\ document[Len(document)].type_ = "title"
    /\ document[Len(document)].mention_text = <<"TSU", "NL", "HARAI">>

\* A call in which the fields were collected around an item and an amount.
C24_LinesReached ==
    /\ Done /\ Len(line_items) = 1
    /\ extracted_data.title # None /\ extracted_data.date # None
    /\ document[1].type_ = "date" /\ document[3].type_ = "title"


(***************************************************************************)
(* Properties of the orientation decisions (SpecOrient).                   *)
(***************************************************************************)
\* C25: for vote counts h (horizontal) and v (vertical), the decision keeps
\* the orientation when h + v < 3; otherwise it is the 90-degree clockwise
\* rotation exactly when v > 1.2 h (5 v > 6 h) or h = 0 and v > 2; it never
\* rotates when v <= h.
C25_Decide90 ==
    img_pc \in {"analyze180", "analysed"} =>
        LET h == votes[1]
            v == votes[2]
        IN  /\ rotate_cmd \in {None, <<ROTATE_90_CLOCKWISE>>}
            /\ h + v < 3 => rotate_cmd = None
            /\ h + v >= 3 =>
                  ( rotate_cmd = <<ROTATE_90_CLOCKWISE>>
                    <=> (5 * v > 6 * h \/ (h = 0 /\ v > 2)) )
            /\ v <= h => rotate_cmd = None

\* Four horizontal and five vertical votes rotate the page.
C25_Witness ==
    /\ img_pc = "analyze180"
    /\ votes = <<4, 5>>
    /\ rotate_cmd = <<ROTATE_90_CLOCKWISE>>

\* The other cases: five against six votes (v = 1.2 h) and two vertical
\* votes alone keep the orientation, three vertical votes alone rotate.
C25_BoundaryReached ==
    img_pc = "analyze180" /\ votes = <<5, 6>> /\ rotate_cmd = None

C25_TooFewReached ==
    img_pc = "analyze180" /\ votes = <<0, 2>> /\ rotate_cmd = None

C25_VerticalOnlyReached ==
    img_pc = "analyze180" /\ votes = <<0, 3>> /\ rotate_cmd = <<ROTATE_90_CLOCKWISE>>

\* C26: the 180-degree analysis chooses the rotation exactly when the mask
\* has a foreground pixel and bottom ink > 1.1 * top ink (10 b > 11 t); it
\* does not flip when the two are equal, when the bottom is at most 10%
\* denser, when both are zero, or when the mask has no foreground pixel.
C26_UpsideDown ==
    img_pc = "analysed" =>
        LET t == ink[1]
            b == ink[2]
        IN  /\ rotate_cmd_180 \in {None, <<ROTATE_180>>}
            /\ rotate_cmd_180 = <<ROTATE_180>>
               <=> (mask.foreground # "none" /\ 10 * b > 11 * t)
            /\ b = t => rotate_cmd_180 = None
            /\ 10 * b <= 11 * t => rotate_cmd_180 = None
            /\ mask.foreground = "none" => rotate_cmd_180 = None

\* Top ink 10 and bottom ink 11 (exactly 10% denser) on a usable mask: no
\* flip.
C26_Witness ==
    /\ img_pc = "analysed"
    /\ mask.foreground = "some"
    /\ ink = <<10, 11>>
    /\ rotate_cmd_180 = None

\* The other cases: 9 against 10 flips; a denser bottom on an empty mask
\* and two empty regions do not.
C26_FlipReached ==
    img_pc = "analysed" /\ mask.foreground = "all" /\ ink = <<9, 10>>
    /\ rotate_cmd_180 = <<ROTATE_180>>

C26_EmptyMaskReached ==
    img_pc = "analysed" /\ mask.foreground = "none" /\ ink = <<1, 11>>
    /\ rotate_cmd_180 = None

C26_BothZeroReached ==
    img_pc = "analysed" /\ mask.foreground = "all" /\ ink = <<0, 0>>
    /\ rotate_cmd_180 = None


(***************************************************************************)
(* Properties of the order of the steps of process_image_and_reply         *)
(* (SpecTask).                                                             *)
(***************************************************************************)
PipelineSteps ==
    <<"get_store_code_by_user", "download_lw_attachment", "process_image",
      "process_document", "generate_csv_content", "upload_processed_results",
      "upload_to_s3", "send_lw_message">>

IsErrorNotification(c) == c.fn = "send_lw_message" /\ c.args[2].wording = "error"

ErrorNotifications == {i \in 1..Len(calls) : IsErrorNotification(calls[i])}

\* The calls of the log that are steps of the pipeline.
StepCalls ==
    SelectSeq(calls, LAMBDA c : c.fn # "upload_error_image" /\ ~IsErrorNotification(c))

\* A step of the pipeline other than the GCS result upload failed.
StepFailed(i) ==
    /\ Failed(i)
    /\ calls[i].fn # "upload_processed_results"
    /\ ~IsErrorNotification(calls[i])

\* The title checks of lines 60-71 rejected the parsed result.
TitleRejected ==
    /\ pc = "done"
    /\ CallsOf("generate_csv_content") = {}
    /\ \/ extracted_data.title = None
       \/ extracted_data.title[1] \notin KEYWORDS

Stopped == (\E i \in 1..Len(calls) : StepFailed(i)) \/ (TitleRejected /\ task_pc # "parsing")

\* C27: the calls of the task are a prefix of the fixed order of steps, the
\* parser running between recognition and CSV generation; once a step other
\* than the GCS result upload has failed (or the title checks have rejected
\* the result) no later step is called, the task ends raised after exactly
\* one error notification to the recipient, sent last, and the worker
\* endpoint answers 400; a task ends raised only for such a failure or for
\* a missing recipient; a task that returned has made the S3 upload and the
\* notification of step 9, whether the GCS upload raised or not.
C27_FailStop ==
    /\ Len(StepCalls) <= Len(PipelineSteps)
    /\ \A k \in 1..Len(StepCalls) : StepCalls[k].fn = PipelineSteps[k]
    /\ pc # "idle" => \E i \in CallsOf("process_document") : ~Failed(i)
    /\ CallsOf("generate_csv_content") # {} => pc = "done"
    /\ \A i \in 1..Len(calls) :
          StepFailed(i) => \A j \in (i + 1)..Len(calls) : IsErrorNotification(calls[j])
    /\ Stopped => /\ task_pc \in {"handler", "raised"}
                  /\ Notifications \subseteq {i \in 1..Len(calls) : Failed(i)}
    /\ task_pc # "raised" => ErrorNotifications = {}
    /\ (task_pc = "raised" /\ recipient_id # None)
       => /\ Stopped
          /\ ErrorNotifications = {Len(calls)}
          /\ calls[Len(calls)].args[1] = recipient_id
          /\ worker_endpoint(task_pc) = 400
    /\ (task_pc = "raised" /\ recipient_id = None)
       => calls = <<>> /\ worker_endpoint(task_pc) = 400
    /\ task_pc = "returned"
       => /\ ~Stopped
          /\ \E i \in CallsOf("upload_to_s3") : ~Failed(i)
          /\ \E i \in Notifications : ~Failed(i)
          /\ worker_endpoint(task_pc) = 200

\* The S3 upload failed after a GCS upload that raised: the task ended
\* raised, the S3 upload is the last step and one error notification
\* follows it.
C27_Witness ==
    /\ task_pc = "raised"
    /\ \E i \in CallsOf("upload_processed_results") : calls[i].result = "raises"
    /\ \E i \in CallsOf("upload_to_s3") :
          /\ calls[i].result = "err"
          /\ i = Len(calls) - 1
    /\ IsErrorNotification(calls[Len(calls)])
    /\ calls[Len(calls)].args[2].body = "error_save"
    /\ Notifications = {}

\* The other cases: the GCS upload alone raised and the task returned; the
\* download failed; the notification of step 9 failed; the title was
\* rejected.
C27_GcsAloneReached ==
    /\ task_pc = "returned"
    /\ \E i \in CallsOf("upload_processed_results") : calls[i].result = "raises"
    /\ Len(StepCalls) = Len(PipelineSteps)

C27_DownloadFailedReached ==
    /\ task_pc = "raised"
    /\ Len(calls) = 3
    /\ calls[2].fn = "download_lw_attachment" /\ calls[2].result = "err"

C27_NotifyFailedReached ==
    /\ task_pc = "raised"
    /\ Len(calls) >= 2
    /\ calls[Len(calls) - 1].fn = "send_lw_message"
    /\ calls[Len(calls) - 1].args[2].wording # "error"
    /\ calls[Len(calls)].args[2].body = "error_unexpected"

C27_TitleRejectedReached ==
    /\ task_pc = "raised"
    /\ TitleRejected
    /\ \A i \in 1..(Len(calls) - 1) : ~Failed(i)


(***************************************************************************)
(* Properties of the access-token cache (SpecToken).                       *)
(***************************************************************************)
InFlight == {t \in Threads : caller_pc[t] = "request"}

\* C30: whatever the interleaving of the threads calling
\* get_valid_access_token, at most one of them has a token request in
\* flight; a call answered from the cache read a clock value before the
\* stored expiry, which is the time the token was stored at plus its
\* lifetime minus TOKEN_REFRESH_BUFFER; a call whose refresh failed
\* received None, not a token.
C30_TokenCache ==
    /\ Cardinality(InFlight) <= 1
    /\ \A t \in Threads :
          received[t] # None =>
             LET r == received[t][1]
             IN  /\ r.via = "cache" =>
                       /\ r.token # None
                       /\ r.at < r.expiry
                       /\ \E v \in ExpiresInValues :
                             r.expiry = r.token[1].issued + ExpiresInInt(v)
                                        - TOKEN_REFRESH_BUFFER
                 /\ r.via = "failed" => r.token = None

\* Thread 1's refresh of an expired token failed and left the token in the
\* cache; thread 2, which had to wait for the lock, is refreshing in turn.
C30_Witness ==
    /\ received[1] # None
    /\ received[1][1].via = "failed"
    /\ received[1][1].token = None
    /\ _cached_token # None
    /\ now >= _token_expiry_time
    /\ caller_pc[2] = "request"
    /\ _token_lock = <<2>>

\* The other cases: a call answered from the cache while another thread
\* waits for the lock; a thread waiting while a request is in flight.
C30_CacheHitReached ==
    /\ caller_pc[1] = "release"
    /\ received[1] # None /\ received[1][1].via = "cache"
    /\ caller_pc[2] = "wait"

C30_ContentionReached ==
    caller_pc[1] = "request" /\ caller_pc[2] = "wait"

====
